---- MODULE Spec2Model ----
(***************************************************************************)
(* A model of the code-generation core of rust-bindgen                     *)
(* (src/src/codegen/mod.rs): the emission pass over the IR (Item, Module,  *)
(* CompInfo, Method and Function code generation with the CodegenResult    *)
(* accumulator), the emission of a tagged enum, and the arithmetic of the  *)
(* generated bitfield accessors and bitfield-unit constructor.             *)
(***************************************************************************)
EXTENDS Integers, Sequences, FiniteSets, TLC

VARIABLES
    ir,          \* the immutable IR and options of the pass
    pc,          \* "start", "run" or "done": position of codegen()
    results,     \* stack of CodegenResult; the last one is the current one
    stack,       \* call stack of the Module / CompInfo emitters in progress
    dispatched,  \* per ItemId: how often Item::codegen dispatched it (history)
    output,      \* the items returned by codegen() once the pass has ended
    enum,        \* the Enum being emitted and its options
    epc,         \* "idle", "loop" or "done": position of <Enum as CodeGenerator>::codegen
    iter,        \* the index of the next variant of the peekable iterator
    constified_variants, \* the deferred variants (indexes), front first
    seen_values, \* value -> identifier of the variant that carries it
    builder,     \* the EnumBuilder
    eresult,     \* what the enum emitter pushed onto the result
    unit,        \* the BitfieldUnit whose accessors were generated
    storage,     \* the contents of the unit field of the struct
    bpc,         \* "idle", "init", "set", "new" or "got": the accessor last called
    call,        \* the arguments of the setter or constructor last called
    ret,         \* the bitfield and the value the getter last returned
    comp,        \* the composite being emitted, the options and the layout
    cpc,         \* position of <CompInfo as CodeGenerator>::codegen
    derives,     \* the derives of the record
    needs_clone_impl, \* needs_clone_impl
    fields,      \* the fields of the record
    methods,     \* the methods of the inherent impl block
    citems,      \* what the composite emitter pushed onto the result
    titem,       \* the item being rendered: what try_to_rust_ty and try_get_layout return
    tpc,         \* "idle", "call" or the name of the rendering function that returned
    rendered,    \* what the rendering function returned
    bunit,       \* the layout of the BitfieldUnit whose field and accessors are generated
    upc,         \* "idle", "codegen", "generated", "none", "got" or "set"
    accessors,   \* the storage field and the unit integer type of the accessors
    copied       \* the bytes of the storage field, from 0, that the last call copied

passVars == <<ir, pc, results, stack, dispatched, output>>

enumVars == <<enum, epc, iter, constified_variants, seen_values, builder, eresult>>

bfVars == <<unit, storage, bpc, call, ret>>

compVars == <<comp, cpc, derives, needs_clone_impl, fields, methods, citems>>

tyVars == <<titem, tpc, rendered>>

unitVars == <<bunit, upc, accessors, copied>>

vars == <<ir, pc, results, stack, dispatched, output,
          enum, epc, iter, constified_variants, seen_values, builder, eresult,
          unit, storage, bpc, call, ret,
          comp, cpc, derives, needs_clone_impl, fields, methods, citems,
          titem, tpc, rendered,
          bunit, upc, accessors, copied>>

(***************************************************************************)
(* Names are sequences of one-character strings, so that appending the     *)
(* decimal overload number to a name is string concatenation.              *)
(***************************************************************************)
None == <<>>

DigitChars == <<"0", "1", "2", "3", "4", "5", "6", "7", "8", "9">>

\* write!(&mut canonical_name, "{}", times_seen): the decimal digits of n
RECURSIVE Decimal(_)
Decimal(n) ==
    IF n < 10 THEN <<DigitChars[n + 1]>>
    ELSE Decimal(n \div 10) \o <<DigitChars[(n % 10) + 1]>>

(***************************************************************************)
(* The IR.  Item ids are strings.  The root module has the modules A and B *)
(* as children; B is an inline namespace.  S is a struct and T a union     *)
(* that cannot be a native union; F1..F5 are function items; O is an       *)
(* Objective-C interface.                                                  *)
(***************************************************************************)
Root == "root"

Modules == {"root", "A", "B"}

Comps == {"S", "T"}

Functions == {"F1", "F2", "F3", "F4", "F5"}

ObjCInterfaces == {"O"}

\* template instantiations: I1, I2 and I3 instantiate foo with int, I4 with float
Instantiations == {"I1", "I2", "I3", "I4"}

\* variables: three declarations of the variable x
Vars == {"V1", "V2", "V3"}

ItemIds == Modules \cup Comps \cup Functions \cup ObjCInterfaces \cup Instantiations \cup Vars

\* the order in which a module lists those of its children that are not modules
DeclOrder ==
    <<"S", "T", "O", "I1", "I2", "I4", "I3", "V1", "V2", "V3", "F1", "F4", "F5", "F2", "F3">>

ItemKind(id) ==
    IF id \in Modules THEN "Module"
    ELSE IF id \in Functions THEN "Function"
    ELSE IF id \in Vars THEN "Var"
    ELSE "Type"

\* Function::name, Item::canonical_name and Function::mangled_name.
\* F1 and F2 are C++ overloads of f, F4 and F5 are two declarations of the
\* extern "C" function f, and F3 is a function whose canonical name is f1.
Function(id) ==
    CASE id = "F1" -> [name |-> <<"f">>, canonical_name |-> <<"f">>,
                       mangled_name |-> <<"m", "1">>]
      [] id = "F2" -> [name |-> <<"f">>, canonical_name |-> <<"f">>,
                       mangled_name |-> <<"m", "2">>]
      [] id = "F3" -> [name |-> <<"f", "$", "1">>, canonical_name |-> <<"f", "1">>,
                       mangled_name |-> None]
      [] id = "F4" -> [name |-> <<"f">>, canonical_name |-> <<"f">>,
                       mangled_name |-> None]
      [] id = "F5" -> [name |-> <<"f">>, canonical_name |-> <<"f">>,
                       mangled_name |-> None]

CanonicalNames == {Function(f).canonical_name : f \in Functions}

\* Item::full_disambiguated_name of a template instantiation
full_disambiguated_name(id) ==
    IF id = "I4" THEN <<"foo_open0_float_close0">> ELSE <<"foo_open0_int_close0">>

\* format!("__bindgen_test_layout_{}_instantiation", name)
TestLayoutName(name) == <<"__bindgen_test_layout_">> \o name \o <<"_instantiation">>

TestLayoutNames == {TestLayoutName(full_disambiguated_name(i)) : i \in Instantiations}

canonical_name(id) ==
    IF id \in Functions THEN Function(id).canonical_name
    ELSE IF id \in Vars THEN <<"x">>
    ELSE <<id>>

is_inline(m) == m = "B"

\* enable_cxx_namespaces and conservative_inline_namespaces
Options ==
    { [enable_cxx_namespaces |-> FALSE, conservative_inline_namespaces |-> FALSE],
      [enable_cxx_namespaces |-> TRUE, conservative_inline_namespaces |-> FALSE],
      [enable_cxx_namespaces |-> TRUE, conservative_inline_namespaces |-> TRUE] }

NoMethods == <<>>

\* CompInfo of S and T: inner_types, methods (signature item and kind),
\* is_forward_declaration, has_non_type_template_params
CompShapes ==
    { [S |-> [inner_types |-> <<>>, methods |-> NoMethods, fwd |-> FALSE, nontype |-> FALSE],
       T |-> [inner_types |-> <<>>, methods |-> NoMethods, fwd |-> FALSE, nontype |-> FALSE]],
      [S |-> [inner_types |-> <<"T">>, methods |-> NoMethods, fwd |-> FALSE, nontype |-> FALSE],
       T |-> [inner_types |-> <<>>, methods |-> NoMethods, fwd |-> FALSE, nontype |-> FALSE]],
      [S |-> [inner_types |-> <<"T">>, methods |-> NoMethods, fwd |-> FALSE, nontype |-> FALSE],
       T |-> [inner_types |-> <<"S">>, methods |-> NoMethods, fwd |-> FALSE, nontype |-> FALSE]],
      [S |-> [inner_types |-> <<>>,
              methods |-> <<[signature |-> "F1", kind |-> "Normal"],
                            [signature |-> "F2", kind |-> "Virtual"]>>,
              fwd |-> FALSE, nontype |-> FALSE],
       T |-> [inner_types |-> <<>>, methods |-> NoMethods, fwd |-> TRUE, nontype |-> FALSE]],
      [S |-> [inner_types |-> <<"T">>, methods |-> NoMethods, fwd |-> FALSE, nontype |-> TRUE],
       T |-> [inner_types |-> <<>>, methods |-> NoMethods, fwd |-> FALSE, nontype |-> FALSE]] }

\* which items are hidden, disabled for codegen, missing from codegen_items,
\* or have template parameters; which composites have a field that is an
\* incomplete array; whether the module A lists the Objective-C interface O;
\* and need_bindegen_complex_type
Scenario(hidden, disabled, unlisted, templated, incomplete, objc, complex) ==
    [hidden |-> hidden, disabled |-> disabled, unlisted |-> unlisted,
     templated |-> templated, incomplete |-> incomplete, objc |-> objc,
     complex |-> complex]

Scenarios ==
    { Scenario({}, {}, {}, {}, {}, FALSE, FALSE),
      Scenario({"F2"}, {}, {}, {}, {}, FALSE, FALSE),
      Scenario({}, {"F4"}, {}, {}, {}, FALSE, FALSE),
      Scenario({}, {}, {"T"}, {}, {}, FALSE, FALSE),
      Scenario({}, {}, {}, {"F1"}, {}, FALSE, FALSE),
      Scenario({}, {}, {}, {}, {"S"}, TRUE, TRUE),
      Scenario({}, {}, {}, {}, {"S"}, FALSE, FALSE) }

\* the module (or none) that lists each function as a child
Placements == [Functions -> {"A", "B", "none"}]

\* the template instantiations of the IR: whether the modules list them
\* (I1, I2 and I4 in A, I3 in B), the layout_tests option, and which of
\* them are opaque, use template parameters or have no layout
NoInstantiations ==
    [listed |-> FALSE, layout_tests |-> TRUE, opaque |-> {}, uses_params |-> {},
     no_layout |-> {}]

InstantiationScenarios ==
    {NoInstantiations}
    \cup [listed : {TRUE}, layout_tests : BOOLEAN, opaque : {{}, {"I1"}, {"I2"}},
          uses_params : {{}, {"I1"}, {"I3"}}, no_layout : {{}, {"I2"}, {"I4"}}]

\* Var::val: none, or the kind of the compile-time value
VarVals == {None, <<"Bool">>, <<"Int">>, <<"Float">>, <<"Char">>, <<"String">>}

\* a variable of the IR: its value and whether it has template parameters
VarData == [val : VarVals, templated : BOOLEAN]

\* the variables of the IR: whether the modules list them (V1 and V2 in A,
\* V3 in B), what they are, and whether helpers::ast_ty::float_expr can
\* express the Float values
NoVars ==
    [listed |-> FALSE, float_expr_ok |-> TRUE,
     V1 |-> [val |-> None, templated |-> FALSE],
     V2 |-> [val |-> None, templated |-> FALSE],
     V3 |-> [val |-> None, templated |-> FALSE]]

VarScenarios ==
    {NoVars}
    \cup [listed : {TRUE}, float_expr_ok : BOOLEAN, V1 : VarData, V2 : VarData,
          V3 : [val : {None, <<"Int">>}, templated : {FALSE}]]

children(m) ==
    IF m = Root THEN <<"A", "B">>
    ELSE SelectSeq(DeclOrder,
                   LAMBDA i : IF i \in Functions THEN ir.place[i] = m
                              ELSE \/ (i = "S" /\ m = "A")
                                   \/ (i = "T" /\ m = "B")
                                   \/ (i = "O" /\ m = "A" /\ ir.scenario.objc)
                                   \/ (i \in {"I1", "I2", "I4"} /\ m = "A" /\ ir.inst.listed)
                                   \/ (i = "I3" /\ m = "B" /\ ir.inst.listed)
                                   \/ (i \in {"V1", "V2"} /\ m = "A" /\ ir.var.listed)
                                   \/ (i = "V3" /\ m = "B" /\ ir.var.listed))

is_enabled_for_codegen(id) == id \notin ir.scenario.disabled

is_hidden(id) == id \in ir.scenario.hidden

codegen_items == ItemIds \ ir.scenario.unlisted

all_template_params_nonempty(id) ==
    IF id \in Vars THEN ir.var[id].templated ELSE id \in ir.scenario.templated

CompInfo(id) == ir.shape[id]

\* a field of the composite is an incomplete array
has_incomplete_array_field(id) == id \in ir.scenario.incomplete

need_bindegen_complex_type == ir.scenario.complex

layout_tests == ir.inst.layout_tests

\* TemplateInstantiation::is_opaque
is_opaque(id) == id \in ir.inst.opaque

uses_any_template_parameters(id) == id \in ir.inst.uses_params

\* the layout of the type of the item, if known
item_layout(id) == IF id \in ir.inst.no_layout THEN None ELSE <<[size |-> 4, align |-> 4]>>

is_union(id) == id = "T"

can_be_rust_union(id) == FALSE

\* Item::codegen_depth: the number of enclosing module scopes
codegen_depth(id) ==
    IF ~ir.options.enable_cxx_namespaces THEN 0
    ELSE IF id = Root THEN 0
    ELSE 1

(***************************************************************************)
(* CodegenResult                                                           *)
(***************************************************************************)
New ==
    [ items |-> <<>>,
      saw_bindgen_union |-> FALSE,
      saw_union |-> FALSE,
      saw_incomplete_array |-> FALSE,
      saw_objc |-> FALSE,
      items_seen |-> {},
      functions_seen |-> {},
      vars_seen |-> {},
      overload_counters |-> [n \in CanonicalNames \cup TestLayoutNames |-> 0] ]

\* an emitted item; every kind of item has the same fields
Tok(kind, id, ident, link, body) ==
    [kind |-> kind, id |-> id, ident |-> ident, link |-> link, body |-> body]

push(r, item) == [r EXCEPT !.items = Append(@, item)]

prepend_last(r, item) == [r EXCEPT !.items = Append(@, item)]

prepend(r, item) == [r EXCEPT !.items = <<item>> \o @]

saw_union(r) == [r EXCEPT !.saw_union = TRUE]

saw_bindgen_union(r) == [saw_union(r) EXCEPT !.saw_bindgen_union = TRUE]

saw_incomplete_array(r) == [r EXCEPT !.saw_incomplete_array = TRUE]

saw_objc(r) == [r EXCEPT !.saw_objc = TRUE]

seen(r, id) == id \in r.items_seen

set_seen_late(r, id) == r

set_seen(r, id) == [r EXCEPT !.items_seen = @ \cup {id}]

seen_function_never(r, name) == FALSE

seen_function(r, name) == name \in r.functions_seen

saw_function(r, name) == [r EXCEPT !.functions_seen = @ \cup {name}]

seen_var(r, name) == name \in r.vars_seen

saw_var(r, name) == [r EXCEPT !.vars_seen = @ \cup {name}]

overload_number_stuck(r, name) ==
    [number |-> r.overload_counters[name], result |-> r]

\* overload_number: the number read, and the result with the counter incremented
overload_number(r, name) ==
    [number |-> r.overload_counters[name],
     result |-> [r EXCEPT !.overload_counters[name] = @ + 1]]

\* what CodegenResult::inner does to self once the callback has run on `new`
inner(self, new) ==
    [self EXCEPT !.saw_union = @ \/ new.saw_union,
                 !.saw_incomplete_array = @ \/ new.saw_incomplete_array,
                 !.saw_objc = @ \/ new.saw_objc]

top_level_path_flat(id) == <<"self">>

top_level_path(id) ==
    <<"self">> \o [i \in 1..codegen_depth(id) |-> "super"]

root_import(id) ==
    Tok("use", id, top_level_path(id) \o canonical_name(Root), None, <<>>)

(***************************************************************************)
(* <Function as CodeGenerator>::codegen on the result r                    *)
(***************************************************************************)
LinkName(id, canonical) ==
    LET fun == Function(id) IN
    IF fun.mangled_name # None THEN fun.mangled_name
    ELSE IF fun.name # canonical THEN fun.name
    ELSE None

SeenSymbolName(id) ==
    IF Function(id).mangled_name # None THEN Function(id).mangled_name
    ELSE canonical_name(id)

FunctionIdent(canonical, times_seen) ==
    IF times_seen > 0 THEN canonical \o Decimal(times_seen) ELSE canonical

FunctionCodegenCounting(id, r) ==
    IF all_template_params_nonempty(id) THEN r
    ELSE IF seen_function(r, SeenSymbolName(id))
    THEN overload_number(r, canonical_name(id)).result
    ELSE LET r1 == saw_function(r, SeenSymbolName(id))
             canonical == canonical_name(id)
             link == LinkName(id, canonical)
             ov == overload_number(r1, canonical)
             ident == FunctionIdent(canonical, ov.number)
         IN  push(ov.result, Tok("fn", id, ident, link, <<>>))

FunctionCodegen(id, r) ==
    IF all_template_params_nonempty(id) THEN r
    ELSE IF seen_function(r, SeenSymbolName(id)) THEN r
    ELSE LET r1 == saw_function(r, SeenSymbolName(id))
             canonical == canonical_name(id)
             link == LinkName(id, canonical)
             ov == overload_number(r1, canonical)
             ident == FunctionIdent(canonical, ov.number)
         IN  push(ov.result, Tok("fn", id, ident, link, <<>>))

(***************************************************************************)
(* The machine state that the emitters transform: the stack of results,    *)
(* the call stack and the dispatch history.                                *)
(***************************************************************************)
Frame(kind, id, scoped) ==
    [kind |-> kind, id |-> id, idx |-> 1, midx |-> 1, found_any |-> FALSE,
     scoped |-> scoped, methods |-> <<>>, method_names |-> {}]

Top(s) == s[Len(s)]

SetTop(s, x) == [s EXCEPT ![Len(s)] = x]

Pop(s) == SubSeq(s, 1, Len(s) - 1)

\* <Module as CodeGenerator>::codegen up to the loop over the children
ModuleCodegen(id, st) ==
    IF ~ir.options.enable_cxx_namespaces
       \/ (is_inline(id) /\ ~ir.options.conservative_inline_namespaces)
    THEN [st EXCEPT !.stack = Append(@, Frame("module", id, FALSE))]
    ELSE [st EXCEPT !.stack = Append(@, Frame("module", id, TRUE)),
                    !.results = Append(@, push(New, root_import(id)))]

\* <CompInfo as CodeGenerator>::codegen up to the loop over inner_types
CompCodegen(id, st) ==
    LET ci == CompInfo(id)
        r == Top(st.results)
    IN  IF ci.nontype THEN st
        ELSE IF ci.fwd
        THEN [st EXCEPT !.results = SetTop(@, push(r, Tok("struct", id, canonical_name(id), None, <<>>)))]
        ELSE LET r0 == IF has_incomplete_array_field(id)
                       THEN saw_incomplete_array(r) ELSE r
                 r1 == IF is_union(id)
                       THEN IF ~can_be_rust_union(id)
                            THEN saw_bindgen_union(saw_union(r0))
                            ELSE saw_union(r0)
                       ELSE r0
                 r2 == push(r1, Tok("struct", id, canonical_name(id), None, <<>>))
             IN  [st EXCEPT !.results = SetTop(@, r2),
                            !.stack = Append(@, Frame("comp", id, FALSE))]

TestFnNameUnsuffixed(fn_name, times_seen) == fn_name

\* the name of the test function: `_<times_seen>` is appended to a repeat
TestFnName(fn_name, times_seen) ==
    IF times_seen > 0 THEN fn_name \o <<"_">> \o Decimal(times_seen) ELSE fn_name

\* <TemplateInstantiation as CodeGenerator>::codegen
TemplateInstantiationCodegen(id, r) ==
    IF ~layout_tests \/ is_opaque(id) THEN r
    ELSE IF uses_any_template_parameters(id) THEN r
    ELSE IF item_layout(id) = None THEN r
    ELSE LET fn_name == TestLayoutName(full_disambiguated_name(id))
             ov == overload_number(r, fn_name)
         IN  push(ov.result,
                  Tok("test", id, TestFnName(fn_name, ov.number), None,
                      <<[size |-> item_layout(id)[1].size, align |-> item_layout(id)[1].align]>>))

\* helpers::ast_ty::float_expr returns Ok
float_expr_ok == ir.var.float_expr_ok

\* <Var as CodeGenerator>::codegen
VarCodegen(id, r) ==
    LET name == canonical_name(id) IN
    IF seen_var(r, name) THEN r
    ELSE LET r1 == saw_var(r, name)
             val == ir.var[id].val
         IN  IF all_template_params_nonempty(id) THEN r1
             ELSE IF val # None
             THEN IF val = <<"Float">> /\ ~float_expr_ok THEN r1
                  ELSE push(r1, Tok("const", id, name, None, val))
             ELSE push(r1, Tok("static", id, name, None, <<>>))

\* <ObjCInterface as CodeGenerator>::codegen
ObjCInterfaceCodegen(id, r) ==
    saw_objc(push(push(r, Tok("trait", id, canonical_name(id), None, <<>>)),
                  Tok("impl", id, canonical_name(id), None, <<>>)))

\* <Item as CodeGenerator>::codegen
ItemCodegen(id, st) ==
    IF ~is_enabled_for_codegen(id) THEN st
    ELSE IF is_hidden(id) \/ seen(Top(st.results), id) THEN st
    ELSE LET st1 == [st EXCEPT !.results = SetTop(@, set_seen(Top(st.results), id)),
                               !.dispatched[id] = @ + 1]
         IN  CASE ItemKind(id) = "Module" -> ModuleCodegen(id, st1)
               [] ItemKind(id) = "Function" ->
                    [st1 EXCEPT !.results = SetTop(@, FunctionCodegen(id, Top(st1.results)))]
               [] ItemKind(id) = "Var" ->
                    [st1 EXCEPT !.results = SetTop(@, VarCodegen(id, Top(st1.results)))]
               [] ItemKind(id) = "Type" /\ id \in ObjCInterfaces ->
                    [st1 EXCEPT !.results = SetTop(@, ObjCInterfaceCodegen(id, Top(st1.results)))]
               [] ItemKind(id) = "Type" /\ id \in Instantiations ->
                    [st1 EXCEPT !.results = SetTop(@, TemplateInstantiationCodegen(id, Top(st1.results)))]
               [] ItemKind(id) = "Type" /\ id \in Comps -> CompCodegen(id, st1)

State == [results |-> results, stack |-> stack, dispatched |-> dispatched]

Becomes(st) ==
    /\ results' = st.results
    /\ stack' = st.stack
    /\ dispatched' = st.dispatched

(***************************************************************************)
(* The pass                                                                *)
(***************************************************************************)
\* the IR to which template instantiations or variables are added: no
\* function is listed, and S has neither inner types nor methods
PlainScenario == Scenario({}, {}, {}, {}, {}, FALSE, FALSE)

NoPlacement == [f \in Functions |-> "none"]

PlainShapes == {sh \in CompShapes : sh.S.inner_types = <<>> /\ sh.S.methods = NoMethods}

PassIdle ==
    /\ ir = [options |-> [enable_cxx_namespaces |-> FALSE,
                          conservative_inline_namespaces |-> FALSE]]
    /\ pc = "idle"
    /\ results = <<>>
    /\ stack = <<>>
    /\ dispatched = <<>>
    /\ output = <<>>

PassInit ==
    /\ ir \in [options : Options, shape : CompShapes, place : Placements,
                scenario : Scenarios, inst : {NoInstantiations}, var : {NoVars}]
               \cup [options : Options, shape : PlainShapes, place : {NoPlacement},
                     scenario : {PlainScenario},
                     inst : InstantiationScenarios \ {NoInstantiations}, var : {NoVars}]
               \cup [options : Options, shape : PlainShapes, place : {NoPlacement},
                     scenario : {PlainScenario},
                     inst : {NoInstantiations}, var : VarScenarios \ {NoVars}]
    /\ pc = "start"
    /\ results = <<>>
    /\ stack = <<>>
    /\ dispatched = [i \in ItemIds |-> 0]
    /\ output = <<>>

\* codegen(): a fresh result, then Item::codegen on the root module
Codegen ==
    /\ pc = "start"
    /\ pc' = "run"
    /\ Becomes(ItemCodegen(Root, [State EXCEPT !.results = <<New>>]))
    /\ UNCHANGED <<ir, output, enumVars, bfVars, compVars, tyVars, unitVars>>

\* one iteration of the loop over the children in codegen_self
ModuleChild ==
    /\ pc = "run"
    /\ stack # <<>>
    /\ Top(stack).kind = "module"
    /\ Top(stack).idx <= Len(children(Top(stack).id))
    /\ LET f == Top(stack)
           child == children(f.id)[f.idx]
       IN  IF child \in codegen_items
           THEN Becomes(ItemCodegen(child,
                    [State EXCEPT !.stack = SetTop(@, [f EXCEPT !.idx = @ + 1,
                                                                !.found_any = TRUE])]))
           ELSE Becomes([State EXCEPT !.stack = SetTop(@, [f EXCEPT !.idx = @ + 1])])
    /\ UNCHANGED <<ir, pc, output, enumVars, bfVars, compVars, tyVars, unitVars>>

\* the helper blocks that codegen_self prepends for the root module
PrependHelpers(id, r) ==
    IF id # Root THEN r
    ELSE LET r1 == IF r.saw_bindgen_union
                   THEN prepend(r, Tok("helper", id, <<"union">>, None, <<>>)) ELSE r
             r2 == IF r1.saw_incomplete_array
                   THEN prepend(r1, Tok("helper", id, <<"incomplete_array">>, None, <<>>)) ELSE r1
             r3 == IF need_bindegen_complex_type
                   THEN prepend(r2, Tok("helper", id, <<"complex">>, None, <<>>)) ELSE r2
             r4 == IF r3.saw_objc
                   THEN prepend(r3, Tok("helper", id, <<"objc">>, None, <<>>)) ELSE r3
         IN  r4

\* the end of codegen_self and the rest of <Module as CodeGenerator>::codegen
ModuleFinish ==
    /\ pc = "run"
    /\ stack # <<>>
    /\ Top(stack).kind = "module"
    /\ Top(stack).idx > Len(children(Top(stack).id))
    /\ LET f == Top(stack)
           new == PrependHelpers(f.id, Top(results))
           rest == Pop(stack)
           after ==
               IF ~f.scoped THEN SetTop(results, new)
               ELSE LET self == inner(results[Len(results) - 1], new)
                        self1 == IF f.found_any
                                 THEN push(self, Tok("mod", f.id, canonical_name(f.id),
                                                     None, new.items))
                                 ELSE self
                    IN  SetTop(Pop(results), self1)
       IN  /\ stack' = rest
           /\ results' = after
           /\ pc' = IF rest = <<>> THEN "done" ELSE "run"
           /\ output' = IF rest = <<>> THEN after[1].items ELSE output
    /\ UNCHANGED <<ir, dispatched, enumVars, bfVars, compVars, tyVars, unitVars>>

\* one iteration of the loop over inner_types
CompInnerType ==
    /\ pc = "run"
    /\ stack # <<>>
    /\ Top(stack).kind = "comp"
    /\ Top(stack).idx <= Len(CompInfo(Top(stack).id).inner_types)
    /\ LET f == Top(stack)
           ty == CompInfo(f.id).inner_types[f.idx]
       IN  Becomes(ItemCodegen(ty, [State EXCEPT !.stack = SetTop(@, [f EXCEPT !.idx = @ + 1])]))
    /\ UNCHANGED <<ir, pc, output, enumVars, bfVars, compVars, tyVars, unitVars>>

MethodCount(method_names, name) == Cardinality({p \in method_names : p[1] = name})

\* Method::codegen_method on the state st, for the composite frame on top
CodegenMethod(method, st) ==
    IF method.kind = "Virtual" THEN st
    ELSE LET st1 == ItemCodegen(method.signature, st)
             f == Top(st1.stack)
             name == Function(method.signature).name
             count == MethodCount(f.method_names, name)
             wrapper == Tok("method", method.signature,
                            IF count # 0 THEN name \o Decimal(count) ELSE name,
                            canonical_name(method.signature), <<>>)
         IN  [st1 EXCEPT !.stack = SetTop(@, [f EXCEPT
                               !.method_names = @ \cup {<<name, count>>},
                               !.methods = Append(@, wrapper)])]

\* one iteration of the loop over methods
CompMethod ==
    /\ pc = "run"
    /\ stack # <<>>
    /\ Top(stack).kind = "comp"
    /\ Top(stack).idx > Len(CompInfo(Top(stack).id).inner_types)
    /\ Top(stack).midx <= Len(CompInfo(Top(stack).id).methods)
    /\ LET f == Top(stack)
           method == CompInfo(f.id).methods[f.midx]
       IN  Becomes(CodegenMethod(method,
                [State EXCEPT !.stack = SetTop(@, [f EXCEPT !.midx = @ + 1])]))
    /\ UNCHANGED <<ir, pc, output, enumVars, bfVars, compVars, tyVars, unitVars>>

\* the impl blocks at the end of <CompInfo as CodeGenerator>::codegen
CompFinish ==
    /\ pc = "run"
    /\ stack # <<>>
    /\ Top(stack).kind = "comp"
    /\ Top(stack).idx > Len(CompInfo(Top(stack).id).inner_types)
    /\ Top(stack).midx > Len(CompInfo(Top(stack).id).methods)
    /\ LET f == Top(stack)
           r == Top(results)
       IN  /\ results' = SetTop(results,
                   IF f.methods # <<>>
                   THEN push(r, Tok("impl", f.id, canonical_name(f.id), None, f.methods))
                   ELSE r)
           /\ stack' = Pop(stack)
    /\ UNCHANGED <<ir, pc, dispatched, output, enumVars, bfVars, compVars, tyVars, unitVars>>

(***************************************************************************)
(* What the claims speak about: the emitted scopes and their externs       *)
(***************************************************************************)
\* the symbol an extern declaration binds: the mangled name, else the canonical one
Symbol(id) ==
    IF Function(id).mangled_name # None THEN Function(id).mangled_name
    ELSE Function(id).canonical_name

\* an item list and the item lists of the modules nested in it
RECURSIVE ScopesOf(_)
ScopesOf(items) ==
    {items} \cup UNION {ScopesOf(items[k].body) :
                           k \in {j \in 1..Len(items) : items[j].kind = "mod"}}

\* every item list of the pass: the results in progress and the final output
AllScopes ==
    UNION {ScopesOf(results[k].items) : k \in 1..Len(results)} \cup ScopesOf(output)

IsFn(t) == t.kind = "fn"

FnsOf(items) == SelectSeq(items, IsFn)

\* the number of extern declarations of symbol s in an item list, nested modules included
RECURSIVE SymbolCount(_, _)
SymbolCount(items, s) ==
    IF items = <<>> THEN 0
    ELSE (IF Head(items).kind = "fn" /\ Symbol(Head(items).id) = s THEN 1 ELSE 0)
         + (IF Head(items).kind = "mod" THEN SymbolCount(Head(items).body, s) ELSE 0)
         + SymbolCount(Tail(items), s)

Symbols == {Symbol(f) : f \in Functions}

\* C1: within one pass every ItemId is dispatched to its emitter at most
\* once, in flat mode and in namespace mode.
NoItemEmittedTwice == \A i \in ItemIds : dispatched[i] <= 1

\* C2 as stated: no function symbol appears in more than one extern
\* declaration of the whole output of a pass.
NoSymbolTwiceInPass ==
    pc = "done" => \A s \in Symbols : SymbolCount(output, s) <= 1

\* C2 amended: within one scope (one CodegenResult: one module scope in
\* namespace mode, the whole output in flat mode) no function symbol appears
\* in more than one extern declaration.
NoSymbolTwiceInScope ==
    \A sc \in AllScopes :
        \A i, j \in 1..Len(sc) :
            (IsFn(sc[i]) /\ IsFn(sc[j]) /\ Symbol(sc[i].id) = Symbol(sc[j].id)) => i = j

\* two declarations of the symbol f were dispatched into the same scope and
\* one extern came out
DuplicateSymbolSkipped ==
    /\ pc = "done"
    /\ dispatched["F4"] = 1
    /\ dispatched["F5"] = 1
    /\ ir.place["F4"] = ir.place["F5"]
    /\ SymbolCount(output, <<"f">>) = 1

\* the functions of canonical name n emitted into the item list sc, in order
Overloads(sc, n) ==
    SelectSeq(sc, LAMBDA t : t.kind = "fn" /\ Function(t.id).canonical_name = n)

\* C3: of the functions emitted into one scope that share a canonical name,
\* the i-th (from 0) is called name when i = 0 and name followed by the
\* decimal i otherwise, and the counter of a result is the number of
\* functions of that name it has emitted.
OverloadNumbering ==
    /\ \A sc \in AllScopes : \A n \in CanonicalNames :
          \A i \in 1..Len(Overloads(sc, n)) :
              Overloads(sc, n)[i].ident =
                  IF i = 1 THEN n ELSE n \o Decimal(i - 1)
    /\ \A k \in 1..Len(results) : \A n \in CanonicalNames :
          results[k].overload_counters[n] = Len(Overloads(results[k].items, n))

\* three overloads of f emitted into one scope as f, f1 and f2
ThreeOverloads ==
    \E sc \in AllScopes :
        /\ Len(Overloads(sc, <<"f">>)) = 3
        /\ Overloads(sc, <<"f">>)[3].ident = <<"f", "2">>

\* C4: an extern whose identifier carries an overload suffix has a
\* link_name naming its original symbol, and so has every extern with a
\* mangled name or a source name different from its canonical name.
SuffixedHasLinkName ==
    \A sc \in AllScopes : \A i \in 1..Len(sc) :
        IsFn(sc[i]) =>
            LET fun == Function(sc[i].id) IN
            /\ sc[i].ident # fun.canonical_name => sc[i].link # None
            /\ fun.mangled_name # None => sc[i].link = fun.mangled_name
            /\ (fun.mangled_name = None /\ fun.name # fun.canonical_name)
                   => sc[i].link = fun.name

\* C5: within one emitted scope the identifiers of the extern functions
\* are pairwise distinct.
IdentifiersDistinct ==
    \A sc \in AllScopes :
        \A i, j \in 1..Len(sc) :
            (IsFn(sc[i]) /\ IsFn(sc[j]) /\ sc[i].ident = sc[j].ident) => i = j


(***************************************************************************)
(* What the claims speak about: the helper blocks and the skipped items    *)
(***************************************************************************)
\* the items of the root module's scope once the pass has ended: the whole
\* output in flat mode, the body of `pub mod root` in namespace mode
RootItems ==
    IF ir.options.enable_cxx_namespaces
    THEN (IF output = <<>> THEN <<>> ELSE output[1].body)
    ELSE output

Helpers(items) == SelectSeq(items, LAMBDA t : t.kind = "helper")

\* the number of helper blocks h in an item list, nested modules included
RECURSIVE HelperCount(_, _)
HelperCount(items, h) ==
    IF items = <<>> THEN 0
    ELSE (IF Head(items).kind = "helper" /\ Head(items).ident = <<h>> THEN 1 ELSE 0)
         + (IF Head(items).kind = "mod" THEN HelperCount(Head(items).body, h) ELSE 0)
         + HelperCount(Tail(items), h)

\* the item list holds the full definition of the composite id
DefinedIn(items, id) ==
    \E k \in 1..Len(items) :
        items[k].kind = "struct" /\ items[k].id = id /\ ~CompInfo(id).fwd

\* a union that is rendered with the union wrapper
WrappedUnions == {id \in Comps : is_union(id) /\ ~can_be_rust_union(id)}

WrappedUnionEmitted ==
    \E sc \in ScopesOf(output) : \E id \in WrappedUnions : DefinedIn(sc, id)

\* C11: when the pass has ended, the union-wrapper helper is in the root
\* output exactly once if a union that cannot be a native union was emitted
\* in any scope, and nowhere in the output otherwise.
UnionHelperOnceAtRoot ==
    pc = "done" =>
        /\ Len(SelectSeq(RootItems, LAMBDA t : t.kind = "helper" /\ t.ident = <<"union">>))
              = (IF WrappedUnionEmitted THEN 1 ELSE 0)
        /\ HelperCount(output, "union") = (IF WrappedUnionEmitted THEN 1 ELSE 0)

HelperOrder == <<"objc", "complex", "incomplete_array", "union">>

Rank(h) == CHOOSE k \in 1..Len(HelperOrder) : <<HelperOrder[k]>> = h

OnlyListedUnseenDispatched ==
    [][\A id \in ItemIds :
          (dispatched # <<>> /\ dispatched'[id] > dispatched[id]) =>
              /\ ~is_hidden(id)
              /\ id \in codegen_items
              /\ (results # <<>> => ~seen(Top(results), id))]_vars

FlagNames == {"saw_union", "saw_bindgen_union", "saw_incomplete_array", "saw_objc"}

\* C14: a step that hands Function codegen an item whose symbol key is in
\* functions_seen of the result leaves the items, functions_seen and
\* overload_counters of that result as they were.
SeenFunctionChangesNothing ==
    [][\A id \in Functions :
          (dispatched # <<>> /\ dispatched'[id] > dispatched[id]
             /\ SeenSymbolName(id) \in Top(results).functions_seen) =>
              /\ Top(results').items = Top(results).items
              /\ Top(results').functions_seen = Top(results).functions_seen
              /\ Top(results').overload_counters = Top(results).overload_counters]_vars

\* F1, F4, F5 and F2 were dispatched into one scope in this order: the
\* second declaration F5 of the symbol f was skipped and the overload F2
\* after it got the suffix 2
SkippedDuplicateKeepsSuffix ==
    /\ pc = "done"
    /\ dispatched["F5"] = 1
    /\ ir.place["F5"] = ir.place["F4"]
    /\ \E sc \in ScopesOf(output) :
          LET ov == Overloads(sc, <<"f">>) IN
          /\ [k \in 1..Len(ov) |-> ov[k].id] = <<"F1", "F4", "F2">>
          /\ ov[3].ident = <<"f", "2">>

\* C20: when CodegenResult::inner returns, each of the four flags of the
\* parent is its value before the call OR the value of the child; and no
\* flag of a result goes from true to false.
InnerMergesFlags ==
    [][/\ (results # <<>> /\ results' # <<>> /\ Len(results') < Len(results)) =>
            \A flag \in FlagNames :
                Top(results')[flag] =
                    (results[Len(results) - 1][flag] \/ Top(results)[flag])
       /\ \A k \in 1..Len(results) : \A flag \in FlagNames :
            (k <= Len(results') /\ results[k][flag]) => results'[k][flag]]_vars


(***************************************************************************)
(* What the claims speak about: the emitted module scopes                  *)
(***************************************************************************)
\* the `mod` items of every item list of the pass
ModItems == UNION {{sc[k] : k \in {j \in 1..Len(sc) : sc[j].kind = "mod"}} : sc \in AllScopes}

\* C21: in namespace mode no `mod` item is emitted for a module whose
\* emission generated nothing besides the root import line, also when the
\* module has children in codegen_items that emit nothing.
NoEmptyModEmitted ==
    \A m \in ModItems : \E k \in 1..Len(m.body) : m.body[k].kind # "use"

\* self, then `super` n times, then the root module identifier
ImportPath(n) == <<"self">> \o [i \in 1..n |-> "super"] \o <<"root">>

\* the number of module scopes that enclose the scope of the module
Depth(m) == IF m = Root THEN 0 ELSE 1

\* C22 as stated: in namespace mode the item list of every emitted module
\* scope, the root scope included, begins with the root import line: self,
\* super once per codegen depth, and the root module identifier.
ScopeBeginsWithImport ==
    \A m \in ModItems :
        /\ m.body # <<>>
        /\ m.body[1].kind = "use"
        /\ m.body[1].ident = ImportPath(Depth(m.id))

\* C22 amended: in namespace mode the first item of every emitted module
\* scope that is not a helper block is the root import line: self, super
\* once per codegen depth, and the root module identifier; helper blocks
\* stand only in the root scope, where they precede the import line; a
\* scope has one import line.
ScopeBeginsWithImportAfterHelpers ==
    \A m \in ModItems :
        LET rest == SelectSeq(m.body, LAMBDA t : t.kind # "helper")
            nh == Len(m.body) - Len(rest)
        IN  /\ nh > 0 => m.id = Root
            /\ \A k \in 1..nh : m.body[k].kind = "helper"
            /\ rest # <<>>
            /\ rest[1].kind = "use"
            /\ rest[1].ident = ImportPath(Depth(m.id))
            /\ \A k \in 2..Len(rest) : rest[k].kind # "use"

\* the pass has ended in namespace mode with the scope of A nested in the
\* root scope: A begins with use self::super::root, and the root scope with
\* a helper block and then use self::root
NestedScopeImports ==
    /\ pc = "done"
    /\ Len(output) = 1
    /\ output[1].kind = "mod"
    /\ output[1].id = Root
    /\ output[1].body[1].kind = "helper"
    /\ \E k \in 2..Len(output[1].body) :
          /\ output[1].body[k].kind = "use"
          /\ output[1].body[k].ident = <<"self", "root">>
          /\ \A j \in 1..(k - 1) : output[1].body[j].kind = "helper"
    /\ \E k \in 1..Len(output[1].body) :
          /\ output[1].body[k].kind = "mod"
          /\ output[1].body[k].id = "A"
          /\ output[1].body[k].body[1].ident = <<"self", "super", "root">>

(***************************************************************************)
(* What the claims speak about: the wrapper methods of the impl blocks     *)
(***************************************************************************)
\* the inherent impl blocks of every item list of the pass
ImplItems == UNION {{sc[k] : k \in {j \in 1..Len(sc) : sc[j].kind = "impl"}} : sc \in AllScopes}

\* an extern declaration of the function id was emitted under the identifier ident
ExternEmittedAs(id, ident) ==
    \E sc \in AllScopes : \E k \in 1..Len(sc) :
        IsFn(sc[k]) /\ sc[k].id = id /\ sc[k].ident = ident

\* C24: for every wrapper method of an inherent impl block an extern
\* declaration of the underlying function has been emitted in the pass,
\* under the identifier that the wrapper calls; there is no wrapper for a
\* function whose extern was not emitted.
WrapperCallsEmittedExtern ==
    \A b \in ImplItems : \A k \in 1..Len(b.body) :
        ExternEmittedAs(b.body[k].id, b.body[k].link)

(***************************************************************************)
(* What the claims speak about: the declarations of variables              *)
(***************************************************************************)
IsVarItem(t) == t.kind \in {"const", "static"}

\* C26: a scope holds at most one declaration per canonical name of a
\* variable; a variable whose canonical name is in vars_seen when it is
\* dispatched emits nothing; and every variable that is dispatched with a
\* name not yet in vars_seen and has no template parameters emits exactly
\* one item: a pub const when it carries a value, an extern pub static mut
\* otherwise.
OneDeclarationPerVariable ==
    /\ [](\A sc \in AllScopes : \A i, j \in 1..Len(sc) :
            (IsVarItem(sc[i]) /\ IsVarItem(sc[j]) /\ sc[i].ident = sc[j].ident) => i = j)
    /\ [][\A v \in Vars :
            (pc = "run" /\ dispatched'[v] = dispatched[v] + 1) =>
                LET before == Top(results).items
                    after == Top(results').items
                IN  IF <<"x">> \in Top(results).vars_seen
                    THEN after = before
                    ELSE ~ir.var[v].templated =>
                            /\ Len(after) = Len(before) + 1
                            /\ SubSeq(after, 1, Len(before)) = before
                            /\ after[Len(after)].id = v
                            /\ after[Len(after)].ident = <<"x">>
                            /\ after[Len(after)].kind =
                                  (IF ir.var[v].val # None THEN "const" ELSE "static")]_vars

(***************************************************************************)
(* What the claims speak about: the layout tests of template instantiations *)
(***************************************************************************)
IsTest(t) == t.kind = "test"

\* the number of layout tests of the instantiation id in an item list,
\* nested modules included
RECURSIVE TestCount(_, _)
TestCount(items, id) ==
    IF items = <<>> THEN 0
    ELSE (IF IsTest(Head(items)) /\ Head(items).id = id THEN 1 ELSE 0)
         + (IF Head(items).kind = "mod" THEN TestCount(Head(items).body, id) ELSE 0)
         + TestCount(Tail(items), id)

\* how many layout tests of instantiations of the same full disambiguated
\* name precede position k of the item list sc
Repeat(sc, k) ==
    Cardinality({j \in 1..(k - 1) :
        /\ IsTest(sc[j])
        /\ full_disambiguated_name(sc[j].id) = full_disambiguated_name(sc[k].id)})

GetsLayoutTest(id) ==
    /\ ir.inst.layout_tests
    /\ id \notin ir.inst.opaque
    /\ id \notin ir.inst.uses_params
    /\ id \notin ir.inst.no_layout

\* C17: with layout_tests on, each emitted template instantiation that is
\* not opaque, uses no template parameters and has a layout gets one test
\* named __bindgen_test_layout_<full disambiguated name>_instantiation,
\* with _<n> appended for the n-th repeat (n >= 1) of the name in the scope,
\* asserting the size and the alignment of the instantiation; the names of
\* the tests of one scope are pairwise distinct; every other instantiation
\* gets no test.
InstantiationTests ==
    /\ \A sc \in AllScopes :
          /\ \A k \in 1..Len(sc) :
                IsTest(sc[k]) =>
                    /\ sc[k].ident =
                          <<"__bindgen_test_layout_">> \o full_disambiguated_name(sc[k].id)
                             \o <<"_instantiation">>
                             \o (IF Repeat(sc, k) = 0 THEN <<>>
                                 ELSE <<"_">> \o Decimal(Repeat(sc, k)))
                    /\ sc[k].body = <<[size |-> 4, align |-> 4]>>
          /\ \A i, j \in 1..Len(sc) :
                (IsTest(sc[i]) /\ IsTest(sc[j]) /\ sc[i].ident = sc[j].ident) => i = j
    /\ pc = "done" =>
          \A id \in Instantiations :
              TestCount(output, id) =
                  IF dispatched[id] = 1 /\ GetsLayoutTest(id) THEN 1 ELSE 0

\* the three instantiations of foo with int came out in one scope, as the
\* tests of the unsuffixed name, of _1 and of _2, and the instantiation with
\* float as the test of its own unsuffixed name
ThreeInstantiationTests ==
    /\ pc = "done"
    /\ \E i, j, k, l \in 1..Len(output) :
          /\ i < j /\ j < l /\ l < k
          /\ IsTest(output[i]) /\ output[i].id = "I1"
          /\ output[i].ident = <<"__bindgen_test_layout_", "foo_open0_int_close0", "_instantiation">>
          /\ IsTest(output[j]) /\ output[j].id = "I2"
          /\ output[j].ident = <<"__bindgen_test_layout_", "foo_open0_int_close0", "_instantiation", "_", "1">>
          /\ IsTest(output[l]) /\ output[l].id = "I4"
          /\ output[l].ident = <<"__bindgen_test_layout_", "foo_open0_float_close0", "_instantiation">>
          /\ IsTest(output[k]) /\ output[k].id = "I3"
          /\ output[k].ident = <<"__bindgen_test_layout_", "foo_open0_int_close0", "_instantiation", "_", "2">>

(***************************************************************************)
(* <Enum as CodeGenerator>::codegen                                        *)
(***************************************************************************)
MaxVariants == 3

VariantNames == <<"A", "B", "C", "D", "E">>

VariantValues == {1, 2}

\* an EnumVariant without its name, which is given by its position
VariantData == [val : VariantValues, hidden : BOOLEAN, force_constification : BOOLEAN]

VariantLists == UNION {[1..n -> VariantData] : n \in 0..MaxVariants}

\* the EnumBuilder variants chosen by EnumBuilder::new
Styles == {"Rust", "Bitfield", "Consts", "ModuleConsts"}

\* whether the enum type has a name, whether the item is top level, and the
\* option prepend_enum_name
EnumKinds ==
    { [named |-> TRUE, is_toplevel |-> TRUE, prepend_enum_name |-> TRUE],
      [named |-> TRUE, is_toplevel |-> FALSE, prepend_enum_name |-> FALSE],
      [named |-> FALSE, is_toplevel |-> TRUE, prepend_enum_name |-> TRUE],
      [named |-> FALSE, is_toplevel |-> FALSE, prepend_enum_name |-> TRUE] }

EnumName == "E"

ParentName == "P"

variants == enum.variants

VariantName(i) == VariantNames[i]

is_rust_enum == enum.style = "Rust"

constant_mangling_prefix ==
    IF enum.kind.prepend_enum_name
    THEN IF ~enum.kind.named
         THEN IF enum.kind.is_toplevel THEN None ELSE <<ParentName>>
         ELSE <<EnumName>>
    ELSE None

\* a constant pushed onto the result: its name, and either the variant it
\* refers to or the value it is given
Const(name, referenced, val) ==
    [kind |-> "const", name |-> name, referenced |-> referenced, val |-> val]

Arm(name, val) == [kind |-> "arm", name |-> name, referenced |-> None, val |-> val]

\* EnumBuilder::with_variant: the builder and the result after the call
with_variant(b, res, i) ==
    LET variant_name == VariantName(i)
        expr == variants[i].val
        constant_name == constant_mangling_prefix \o <<variant_name>>
    IN  CASE b.style = "Rust" ->
                [builder |-> [b EXCEPT !.tokens = Append(@, Arm(<<variant_name>>, expr))],
                 result |-> res]
          [] b.style \in {"Bitfield", "Consts"} ->
                [builder |-> b,
                 result |-> Append(res, Const(constant_name, None, expr))]
          [] b.style = "ModuleConsts" ->
                [builder |-> [b EXCEPT !.tokens =
                                 Append(@, Const(<<variant_name>>, None, expr))],
                 result |-> res]

\* add_constant: pub const <constant_name> : E = E::<referenced_name>
add_constant(res, variant_name, referenced_name) ==
    LET constant_name ==
            IF enum.kind.named
            THEN IF enum.kind.prepend_enum_name
                 THEN <<EnumName>> \o variant_name
                 ELSE variant_name
            ELSE variant_name
    IN  Append(res, Const(constant_name, referenced_name, None))

\* the name under which a variant is constified in the unnamed-enum case
MangledName(i, named_counts) ==
    IF enum.kind.is_toplevel \/ named_counts
    THEN <<VariantName(i)>>
    ELSE <<ParentName, VariantName(i)>>

OccupiedNever(sv, val) == FALSE

\* seen_values.entry(variant.val()) is Entry::Occupied
Occupied(sv, val) == val \in DOMAIN sv

DeferredNever(i, peek_is_some) == FALSE

DeferredAlways(i, peek_is_some) == variants[i].force_constification

\* the variant looked at would be deferred to constified_variants
Deferred(i, peek_is_some) == variants[i].force_constification /\ peek_is_some

AlsoConstantUnnamedOnly(i) == is_rust_enum /\ ~enum.kind.named

\* a constant is generated besides the variant: the enum is unnamed, or
\* constification is enforced
AlsoConstant(i) ==
    (is_rust_enum /\ ~enum.kind.named) \/ variants[i].force_constification

EnumIdle ==
    /\ enum = [variants |-> <<>>, style |-> "Rust", kind |-> [named |-> TRUE]]
    /\ epc = "idle"
    /\ iter = 0
    /\ constified_variants = <<>>
    /\ seen_values = <<>>
    /\ builder = <<>>
    /\ eresult = <<>>

\* the state of the emitter when the loop over the variants starts
EnumInit ==
    /\ enum \in [variants : VariantLists, style : Styles, kind : EnumKinds]
    /\ epc = "loop"
    /\ iter = 1
    /\ constified_variants = <<>>
    /\ seen_values = << >>
    /\ builder = [style |-> enum.style, tokens |-> <<>>]
    /\ eresult = <<>>

\* the body of the loop for the variant i, in the state after it was taken
\* from the iterator or from the queue
EnumBody(i, iter1, queue1) ==
    IF variants[i].hidden
    THEN /\ constified_variants' = queue1
         /\ UNCHANGED <<seen_values, builder, eresult>>
    ELSE IF Deferred(i, iter1 <= Len(variants))
    THEN /\ constified_variants' = Append(queue1, i)
         /\ UNCHANGED <<seen_values, builder, eresult>>
    ELSE IF Occupied(seen_values, variants[i].val)
    THEN /\ constified_variants' = queue1
         /\ IF is_rust_enum
            THEN /\ eresult' = add_constant(eresult,
                                   MangledName(i, enum.kind.named),
                                   seen_values[variants[i].val])
                 /\ UNCHANGED builder
            ELSE LET w == with_variant(builder, eresult, i)
                 IN  builder' = w.builder /\ eresult' = w.result
         /\ UNCHANGED seen_values
    ELSE LET w == with_variant(builder, eresult, i)
             variant_name == <<VariantName(i)>>
         IN  /\ constified_variants' = queue1
             /\ builder' = w.builder
             /\ eresult' =
                   IF AlsoConstant(i)
                   THEN add_constant(w.result, MangledName(i, FALSE), variant_name)
                   ELSE w.result
             /\ seen_values' =
                   [v \in DOMAIN seen_values \cup {variants[i].val} |->
                       IF v = variants[i].val THEN variant_name ELSE seen_values[v]]

\* one iteration of the while loop: iter.next().or_else(pop_front)
EnumVariant ==
    /\ epc = "loop"
    /\ \/ /\ iter <= Len(variants)
          /\ iter' = iter + 1
          /\ EnumBody(iter, iter + 1, constified_variants)
       \/ /\ iter > Len(variants)
          /\ constified_variants # <<>>
          /\ iter' = iter
          /\ EnumBody(Head(constified_variants), iter, Tail(constified_variants))
    /\ UNCHANGED <<enum, epc, passVars, bfVars, compVars, tyVars, unitVars>>

\* EnumBuilder::build and the final push
EnumBuild ==
    /\ epc = "loop"
    /\ iter > Len(variants)
    /\ constified_variants = <<>>
    /\ epc' = "done"
    /\ eresult' = Append(eresult,
           [kind |-> builder.style, name |-> <<EnumName>>, referenced |-> None,
            val |-> None])
    /\ UNCHANGED <<enum, iter, constified_variants, seen_values, builder, passVars, bfVars, compVars, tyVars, unitVars>>

(***************************************************************************)
(* What the claims about the enum emitter speak about                      *)
(***************************************************************************)
Arms == SelectSeq(builder.tokens, LAMBDA t : t.kind = "arm")

Visible == {i \in DOMAIN variants : ~variants[i].hidden}

\* the variant i is emitted as a variant arm
IsArm(i) == \E k \in 1..Len(Arms) : Arms[k].name = <<VariantName(i)>>

\* the variant i is emitted as a constant that refers to the variant j
IsAliasOf(i, j) ==
    \E k \in 1..Len(eresult) :
        /\ eresult[k].kind = "const"
        /\ eresult[k].name[Len(eresult[k].name)] = VariantName(i)
        /\ eresult[k].referenced = <<VariantName(j)>>

TaggedDone == epc = "done" /\ is_rust_enum

\* C6 as stated: a tagged enum has as many variant arms as the enum has
\* distinct variant values.
ArmsEqualDistinctValues ==
    TaggedDone =>
        Len(Arms) = Cardinality({variants[i].val : i \in DOMAIN variants})

\* C6 amended: a tagged enum has as many variant arms as its variants that
\* are not hidden have distinct values.
ArmsEqualDistinctVisibleValues ==
    TaggedDone => Len(Arms) = Cardinality({variants[i].val : i \in Visible})

\* a tagged enum with a repeated value and with a hidden variant whose
\* value no other variant carries
RepeatedAndHiddenValue ==
    /\ TaggedDone
    /\ \E i, j \in Visible : i # j /\ variants[i].val = variants[j].val
    /\ \E h \in DOMAIN variants \ Visible :
          \A i \in Visible : variants[i].val # variants[h].val

\* the first variant in source order that carries the value of variant i
FirstInSource(i) ==
    CHOOSE j \in DOMAIN variants :
        /\ variants[j].val = variants[i].val
        /\ \A k \in DOMAIN variants : variants[k].val = variants[i].val => j <= k

\* C7 as stated: every variant whose value an earlier variant carries is a
\* pub const alias of the first variant in source order with that value,
\* and not a variant arm.
DuplicateAliasesFirstInSource ==
    TaggedDone =>
        \A i \in DOMAIN variants :
            FirstInSource(i) # i => (IsAliasOf(i, FirstInSource(i)) /\ ~IsArm(i))

\* the order in which the loop processes the variants that are not hidden:
\* those that are not deferred in source order, then the deferred ones
\* (force_constification and not the last variant) in source order
IsDeferred(i) == variants[i].force_constification /\ i < Len(variants)

ProcessedBefore(i, j) ==
    \/ ~IsDeferred(i) /\ IsDeferred(j)
    \/ IsDeferred(i) = IsDeferred(j) /\ i < j

FirstProcessed(i) ==
    CHOOSE j \in Visible :
        /\ variants[j].val = variants[i].val
        /\ \A k \in Visible :
              (variants[k].val = variants[i].val /\ k # j) => ProcessedBefore(j, k)

\* C7 amended: every variant that is not hidden and whose value was carried
\* by a variant processed before it is a pub const alias of the first
\* processed variant with that value, and not a variant arm; the first
\* processed variant of each value is a variant arm.
DuplicateAliasesFirstProcessed ==
    TaggedDone =>
        \A i \in Visible :
            IF FirstProcessed(i) # i
            THEN IsAliasOf(i, FirstProcessed(i)) /\ ~IsArm(i)
            ELSE IsArm(i)

\* a deferred variant became the alias of a later variant with its value
DeferredAliasesLater ==
    /\ TaggedDone
    /\ \E i, j \in Visible :
          /\ i < j
          /\ variants[i].val = variants[j].val
          /\ IsDeferred(i)
          /\ IsAliasOf(i, j)
          /\ IsArm(j)

\* the variant i has been processed: an arm or a constant of its name is
\* among the tokens of the builder b or the items of the result res
Processed(i, b, res) ==
    \/ \E k \in 1..Len(b.tokens) : b.tokens[k].name[Len(b.tokens[k].name)] = VariantName(i)
    \/ \E k \in 1..Len(res) :
          res[k].kind = "const" /\ res[k].name[Len(res[k].name)] = VariantName(i)

\* the variant i has a pub const that refers to a variant of the enum
IsConst(i) ==
    \E k \in 1..Len(eresult) :
        /\ eresult[k].kind = "const"
        /\ eresult[k].name[Len(eresult[k].name)] = VariantName(i)
        /\ eresult[k].referenced # None

\* C23: in the tagged style every variant that is not hidden and is marked
\* force_constification is emitted as a pub const, besides or instead of
\* a variant arm; and a force_constification variant that is followed by
\* other variants is processed only when every variant that is not
\* deferred (and not hidden) has been processed.
ForceConstified ==
    /\ [](TaggedDone =>
            \A i \in Visible : variants[i].force_constification => IsConst(i))
    /\ [][(epc = "loop" /\ is_rust_enum) =>
            \A i \in Visible :
                (IsDeferred(i) /\ ~Processed(i, builder, eresult)
                     /\ Processed(i, builder', eresult')) =>
                    /\ iter > Len(variants)
                    /\ \A j \in Visible :
                          ~IsDeferred(j) => Processed(j, builder, eresult)]_vars

\* a force_constification variant with a value of its own stands before
\* another variant: it came out as an arm after the arm of the later
\* variant, and as a constant that refers to its own arm
DeferredArmAndConst ==
    /\ TaggedDone
    /\ \E i, j \in Visible :
          /\ i < j
          /\ IsDeferred(i)
          /\ ~variants[j].force_constification
          /\ variants[i].val # variants[j].val
          /\ IsAliasOf(i, i)
          /\ \E a, b \in 1..Len(Arms) :
                /\ a < b
                /\ Arms[a].name = <<VariantName(j)>>
                /\ Arms[b].name = <<VariantName(i)>>


(***************************************************************************)
(* The generated bitfield accessors and bitfield-unit constructor.         *)
(* Integers are kept at their width: a value of an unsigned type of b bits *)
(* is a number in 0 .. 2^b - 1.                                            *)
(***************************************************************************)
RECURSIVE Pow2(_)
Pow2(n) == IF n = 0 THEN 1 ELSE 2 * Pow2(n - 1)

RECURSIVE BitAnd(_, _)
BitAnd(a, b) ==
    IF a = 0 \/ b = 0 THEN 0
    ELSE (a % 2) * (b % 2) + 2 * BitAnd(a \div 2, b \div 2)

BitOr(a, b) == a + b - BitAnd(a, b)

BitNot(a, bits) == Pow2(bits) - 1 - a

Shl(a, n, bits) == (a * Pow2(n)) % Pow2(bits)

Shr(a, n) == a \div Pow2(n)

\* the layout sizes in bytes of the units and the widths of the bitfields
UnitSizes == {1, 2}

Widths == {1, 2, 3}

BitfieldTypes == {"bool", "u8", "i8", "u16", "i16"}

\* the bits of the layout of a bitfield's type
TypeBits(ty) == IF ty \in {"u16", "i16"} THEN 16 ELSE 8

IsSigned(ty) == ty \in {"i8", "i16"}

next_power_of_two(n) == CHOOSE p \in {1, 2, 4, 8} : p >= n /\ (p = 1 \/ p \div 2 < n)

\* BitfieldUnit::codegen: the bits of unit_field_int_ty
UnitBits(u) == 8 * next_power_of_two(u.size)

\* Bitfield::mask
mask(bf) == (Pow2(bf.width) - 1) * Pow2(bf.offset)

\* the values of the bitfield's type that its width can represent
Domain(bf) ==
    IF bf.ty = "bool" THEN BOOLEAN
    ELSE IF IsSigned(bf.ty)
         THEN (0 - Pow2(bf.width - 1)) .. (Pow2(bf.width - 1) - 1)
         ELSE 0 .. (Pow2(bf.width) - 1)

\* val as bitfield_int_ty as unit_field_int_ty
AsUnitInt(u, bf, val) ==
    LET as_int == IF bf.ty = "bool" THEN (IF val THEN 1 ELSE 0) ELSE val
    IN  (as_int % Pow2(TypeBits(bf.ty))) % Pow2(UnitBits(u))

\* transmute(val as bitfield_int_ty): the values the call can produce
Transmute(bf, val) ==
    LET bits == val % Pow2(TypeBits(bf.ty))
    IN  IF bf.ty = "bool"
        THEN (IF bits = 1 THEN {TRUE} ELSE IF bits = 0 THEN {FALSE} ELSE BOOLEAN)
        ELSE IF IsSigned(bf.ty) /\ bits >= Pow2(TypeBits(bf.ty) - 1)
             THEN {bits - Pow2(TypeBits(bf.ty))}
             ELSE {bits}

\* the generated getter: the values it can return
Getter(u, bf, unit_field_val) ==
    LET m   == mask(bf) % Pow2(UnitBits(u))
        val == Shr(BitAnd(unit_field_val, m), bf.offset)
    IN  Transmute(bf, val)

SetterOverwrite(u, bf, unit_field_val, v) ==
    BitAnd(Shl(AsUnitInt(u, bf, v), bf.offset, UnitBits(u)), mask(bf) % Pow2(UnitBits(u)))

\* the generated setter: the unit after the call
Setter(u, bf, unit_field_val, v) ==
    LET m       == mask(bf) % Pow2(UnitBits(u))
        val     == AsUnitInt(u, bf, v)
        cleared == BitAnd(unit_field_val, BitNot(m, UnitBits(u)))
    IN  BitOr(cleared, BitAnd(Shl(val, bf.offset, UnitBits(u)), m))

\* extend_ctor_impl
extend_ctor_impl(u, bf, ctor_impl, v) ==
    LET m == mask(bf) % Pow2(UnitBits(u))
    IN  BitOr(ctor_impl,
              BitAnd(Shl(AsUnitInt(u, bf, v), bf.offset, UnitBits(u)), m))

\* the generated new_bitfield_N: extend_ctor_impl folded over the bitfields
RECURSIVE CtorImpl(_, _, _)
CtorImpl(u, vals, n) ==
    IF n = 0 THEN 0
    ELSE extend_ctor_impl(u, u.bitfields[n], CtorImpl(u, vals, n - 1), vals[n])

\* the units: one or two bitfields packed next to each other, from the
\* lowest bit of the unit or up to its highest bit
BitfieldShapes == [width : Widths, ty : BitfieldTypes]

Pack(shapes, start) ==
    [i \in DOMAIN shapes |->
        [offset |-> start + (IF i = 1 THEN 0 ELSE shapes[1].width),
         width  |-> shapes[i].width,
         ty     |-> shapes[i].ty]]

TotalWidth(shapes) ==
    shapes[1].width + (IF Len(shapes) = 2 THEN shapes[2].width ELSE 0)

Units ==
    UNION {{[size |-> sz, bitfields |-> Pack(shapes, start)] :
                start \in {0, 8 * sz - TotalWidth(shapes)}} :
            sz \in UnitSizes,
            shapes \in [1..1 -> BitfieldShapes] \cup [1..2 -> BitfieldShapes]}

\* the contents the unit can hold before a call: no bit, every bit, and
\* an alternating pattern
PriorContents(u) ==
    {0, Pow2(UnitBits(u)) - 1, (165 * 257) % Pow2(UnitBits(u))}

NoCall == [op |-> "none", field |-> 0, vals |-> <<>>]

NoRet == [field |-> 0, val |-> FALSE]

BitfieldIdle ==
    /\ unit = [size |-> 1, bitfields |-> <<>>]
    /\ storage = 0
    /\ bpc = "idle"
    /\ call = NoCall
    /\ ret = NoRet

BitfieldInit ==
    /\ unit \in Units
    /\ storage \in PriorContents(unit)
    /\ bpc = "init"
    /\ call = NoCall
    /\ ret = NoRet

\* a call of the setter of the bitfield i with a value of its domain
SetBitfield ==
    /\ bpc = "init"
    /\ \E i \in DOMAIN unit.bitfields :
         \E v \in Domain(unit.bitfields[i]) :
            /\ storage' = Setter(unit, unit.bitfields[i], storage, v)
            /\ call' = [op |-> "set", field |-> i, vals |-> <<v>>]
    /\ bpc' = "set"
    /\ UNCHANGED <<unit, ret, passVars, enumVars, compVars, tyVars, unitVars>>

\* a call of the constructor with a value of the domain of each bitfield,
\* whose result is stored as the unit
NewBitfield ==
    /\ bpc = "init"
    /\ \E v1 \in Domain(unit.bitfields[1]) :
         \E v2 \in (IF Len(unit.bitfields) = 2 THEN Domain(unit.bitfields[2]) ELSE {0}) :
          LET vals == IF Len(unit.bitfields) = 2 THEN <<v1, v2>> ELSE <<v1>> IN
            /\ storage' = CtorImpl(unit, vals, Len(unit.bitfields))
            /\ call' = [op |-> "new", field |-> 0, vals |-> vals]
    /\ bpc' = "new"
    /\ UNCHANGED <<unit, ret, passVars, enumVars, compVars, tyVars, unitVars>>

\* a call of the getter of the bitfield i
GetBitfield ==
    /\ bpc \in {"init", "set", "new"}
    /\ \E i \in DOMAIN unit.bitfields :
         \E v \in Getter(unit, unit.bitfields[i], storage) :
            ret' = [field |-> i, val |-> v]
    /\ bpc' = "got"
    /\ UNCHANGED <<unit, storage, call, passVars, enumVars, compVars, tyVars, unitVars>>

\* C8 as stated: after the setter of a bitfield was called with a value of
\* the bitfield's domain, the getter of that bitfield returns that value,
\* whatever the unit held before.
SetThenGet ==
    (bpc = "got" /\ call.op = "set" /\ ret.field = call.field)
        => ret.val = call.vals[1]

\* C9 as stated: after the value the constructor returned was stored as the
\* unit, the unit is the OR of the shifted and masked arguments and the
\* getter of each bitfield returns the argument given for it.
NewThenGet ==
    /\ (bpc = "new") =>
          /\ \A i \in DOMAIN unit.bitfields :
                LET bf == unit.bitfields[i] IN
                BitAnd(storage, mask(bf))
                    = BitAnd(Shl(AsUnitInt(unit, bf, call.vals[i]), bf.offset,
                                 UnitBits(unit)),
                             mask(bf))
          /\ LET bf == unit.bitfields[1] IN
                storage \div Pow2(bf.offset + TotalWidth(unit.bitfields)) = 0
                    /\ storage % Pow2(bf.offset) = 0
    /\ (bpc = "got" /\ call.op = "new") => ret.val = call.vals[ret.field]

\* how often the loop body emitted the variant i: its arms and constants
\* in the builder, and its constants in the result that carry its value or
\* refer to another variant (the constant that only accompanies the arm of
\* the variant refers to the variant itself)
Emissions(i) ==
    Cardinality({k \in 1..Len(builder.tokens) :
                    builder.tokens[k].name[Len(builder.tokens[k].name)] = VariantName(i)})
    + Cardinality({k \in 1..Len(eresult) :
                    /\ eresult[k].kind = "const"
                    /\ eresult[k].name[Len(eresult[k].name)] = VariantName(i)
                    /\ eresult[k].referenced # <<VariantName(i)>>})

\* the index i stands in the queue of deferred variants q
Queued(q, i) == \E k \in 1..Len(q) : q[k] = i

\* C29: the loop over the variants ends for every list of variants and
\* every choice of force_constification; when it has ended every variant
\* that is not hidden was emitted exactly once and no hidden one was
\* emitted; a variant enters the queue of deferred variants only when the
\* source-order iteration hands it out, so at most once, and it is emitted
\* only after that iteration is exhausted.
EnumLoopTerminates ==
    /\ <>(epc = "done")
    /\ [](epc = "done" =>
            /\ \A i \in Visible : Emissions(i) = 1
            /\ \A i \in DOMAIN variants \ Visible : Emissions(i) = 0)
    /\ [](\A i \in DOMAIN variants :
            /\ Emissions(i) <= 1
            /\ Cardinality({k \in 1..Len(constified_variants) :
                               constified_variants[k] = i}) <= 1
            /\ Queued(constified_variants, i) => (i < iter /\ Emissions(i) = 0))
    /\ [][\A i \in DOMAIN variants :
            /\ (~Queued(constified_variants, i) /\ Queued(constified_variants', i)) =>
                  (i = iter /\ iter' = iter + 1)
            /\ (Queued(constified_variants, i) /\ ~Queued(constified_variants', i)) =>
                  (iter > Len(variants) /\ Emissions(i)' = 1)]_vars

\* the loop has ended for an enum of three variants of which the first two
\* were deferred and one is hidden: the queue is empty and both deferred
\* variants were emitted
TwoDeferredThenDone ==
    /\ epc = "done"
    /\ Len(variants) = 3
    /\ IsDeferred(1) /\ IsDeferred(2)
    /\ \E h \in DOMAIN variants : variants[h].hidden
    /\ \E i \in Visible : IsDeferred(i) /\ Emissions(i) = 1
    /\ constified_variants = <<>>

(***************************************************************************)
(* The end of the pass                                                     *)
(***************************************************************************)
\* the emitters in progress: the ids of the frames of the call stack
InProgress == {stack[k].id : k \in 1..Len(stack)}

\* C30: the pass ends for every IR, also when the inner_types of the
\* composites refer to each other and when an item is reached by several
\* paths: no item has two emitters in progress; a composite whose emitter
\* is in progress is in items_seen of the current result; and an emitter
\* is dispatched only for an item that is not in progress and was not in
\* items_seen of the current result, and the item is in items_seen of that
\* result once the emitter is dispatched.
PassTerminates ==
    /\ <>(pc = "done")
    /\ [](\A j, k \in 1..Len(stack) : stack[j].id = stack[k].id => j = k)
    /\ [](\A k \in 1..Len(stack) :
             stack[k].kind = "comp" => seen(Top(results), stack[k].id))
    /\ [][\A id \in ItemIds :
             dispatched'[id] > dispatched[id] =>
                /\ dispatched'[id] = dispatched[id] + 1
                /\ id \notin InProgress
                /\ pc = "run" => ~seen(Top(results), id)
                /\ LET current == IF pc = "start" THEN 1 ELSE Len(results)
                   IN  seen(results'[current], id)]_vars

\* S and T name each other as inner types; the emitter of T runs inside
\* the emitter of S and has passed its reference to S without a second
\* dispatch of S
CycleCut ==
    /\ pc = "run"
    /\ CompInfo("S").inner_types = <<"T">>
    /\ CompInfo("T").inner_types = <<"S">>
    /\ Len(stack) >= 2
    /\ Top(stack).id = "T"
    /\ Top(stack).idx = 2
    /\ stack[Len(stack) - 1].id = "S"
    /\ dispatched["S"] = 1
    /\ dispatched["T"] = 1

\* the bit b of the unit value x
Bit(x, b) == (x \div Pow2(b)) % 2

\* the bits of the mask of a bitfield
MaskBits(bf) == bf.offset..(bf.offset + bf.width - 1)

\* C28: a call of the setter of a bitfield leaves every bit of the unit
\* outside the mask of that bitfield as it was, whatever the unit held and
\* whatever the argument, so the getter of every other bitfield of the unit
\* returns what it returned before.
SetterKeepsOtherBits ==
    [][(bpc = "init" /\ bpc' = "set") =>
          LET i == call'.field IN
          /\ \A b \in 0..(UnitBits(unit) - 1) :
                b \notin MaskBits(unit.bitfields[i]) => Bit(storage', b) = Bit(storage, b)
          /\ \A j \in DOMAIN unit.bitfields :
                j # i => Getter(unit, unit.bitfields[j], storage')
                            = Getter(unit, unit.bitfields[j], storage)]_vars

\* the setter of the first of two bitfields was called with a value other
\* than zero on a unit in which the bits of the second bitfield and a bit
\* of no bitfield are set
SetBesideOtherBits ==
    /\ bpc = "set"
    /\ Len(unit.bitfields) = 2
    /\ call.field = 1
    /\ \E b \in MaskBits(unit.bitfields[1]) : Bit(storage, b) = 1
    /\ \A b \in MaskBits(unit.bitfields[2]) : Bit(storage, b) = 1
    /\ \E b \in 0..(UnitBits(unit) - 1) :
          /\ b \notin MaskBits(unit.bitfields[1]) \cup MaskBits(unit.bitfields[2])
          /\ Bit(storage, b) = 1

(***************************************************************************)
(* <CompInfo as CodeGenerator>::codegen: the record, its layout test and   *)
(* its impl blocks                                                         *)
(***************************************************************************)
PointerSize == 8

CompName == "C"

\* item.used_template_params(ctx)
TemplateParams ==
    { [is_some |-> FALSE, params |-> <<>>],
      [is_some |-> TRUE, params |-> <<>>],
      [is_some |-> TRUE, params |-> <<"T">>] }

\* the layout of the composite's type: None or size and align in bytes
Layouts == {None, [size |-> 4, align |-> 4], [size |-> 16, align |-> 16]}

Base(is_virtual, has_vtable) == [is_virtual |-> is_virtual, has_vtable |-> has_vtable]

BaseLists ==
    { <<>>,
      <<Base(FALSE, FALSE)>>,
      <<Base(FALSE, TRUE), Base(TRUE, TRUE), Base(FALSE, FALSE)>> }

\* Field::DataMember with its name, offset in bits and accessor annotation
DataMember(name, offset, accessor) ==
    [field |-> "DataMember", name |-> name, offset |-> offset, accessor |-> accessor]

\* Field::Bitfields with the names of the bitfields of the unit
Bitfields(names) ==
    [field |-> "Bitfields", name |-> None, offset |-> None, accessor |-> FALSE,
     bitfields |-> names]

\* the fields of the composite, and whether the layout tracker adds padding
FieldLists ==
    { [fields |-> <<>>, padded |-> FALSE],
      [fields |-> <<DataMember(<<"a">>, <<0>>, FALSE), DataMember(<<"b">>, <<32>>, FALSE)>>,
       padded |-> TRUE],
      [fields |-> <<DataMember(<<"a">>, None, TRUE), DataMember(None, <<8>>, FALSE),
                    DataMember(<<"c">>, <<64>>, FALSE)>>,
       padded |-> FALSE],
      [fields |-> <<Bitfields(<<"x", "y">>), DataMember(<<"c">>, <<32>>, FALSE)>>,
       padded |-> FALSE] }

Method(kind, name, is_variadic) == [kind |-> kind, name |-> name, is_variadic |-> is_variadic]

\* methods, constructors and destructor (None, or whether it is virtual)
MemberLists ==
    { [methods |-> <<>>, constructors |-> <<>>, destructor |-> None],
      [methods |-> <<Method("Normal", "m", FALSE), Method("Virtual", "v", FALSE),
                     Method("Static", "m", FALSE)>>,
       constructors |-> <<"c1", "c2">>,
       destructor |-> <<FALSE>>],
      [methods |-> <<Method("Normal", "m", TRUE), Method("Normal", "new", FALSE)>>,
       constructors |-> <<"c1">>,
       destructor |-> <<TRUE>>] }

\* codegen_config.methods, constructors, destructors and options.layout_tests
Configs ==
    { [methods |-> TRUE, constructors |-> TRUE, destructors |-> TRUE, layout_tests |-> TRUE],
      [methods |-> FALSE, constructors |-> TRUE, destructors |-> FALSE, layout_tests |-> TRUE],
      [methods |-> FALSE, constructors |-> FALSE, destructors |-> FALSE, layout_tests |-> FALSE] }

CompKinds == { [is_union |-> FALSE, can_be_rust_union |-> FALSE],
               [is_union |-> TRUE, can_be_rust_union |-> FALSE],
               [is_union |-> TRUE, can_be_rust_union |-> TRUE] }

\* a composite with a definition
DefinedComps ==
    [ has_non_type_template_params : {FALSE}, is_forward_declaration : {FALSE},
      used_template_params : TemplateParams, derive_copy : BOOLEAN,
      kind : CompKinds, is_opaque : BOOLEAN, layout : Layouts,
      is_unsized : BOOLEAN, needs_explicit_vtable : BOOLEAN,
      bases : BaseLists, fields : FieldLists, members : MemberLists,
      config : Configs ]

\* a forward declaration or a composite with non-type template parameters:
\* no fields, bases or methods
UndefinedComps ==
    [ has_non_type_template_params : BOOLEAN, is_forward_declaration : BOOLEAN,
      used_template_params : TemplateParams, derive_copy : BOOLEAN,
      kind : CompKinds, is_opaque : {FALSE}, layout : {None},
      is_unsized : {FALSE}, needs_explicit_vtable : {FALSE},
      bases : {<<>>}, fields : {[fields |-> <<>>, padded |-> FALSE]},
      members : {[methods |-> <<>>, constructors |-> <<>>, destructor |-> None]},
      config : {CHOOSE c \in Configs : c.methods} ]

\* the layout is unknown or of size 0 exactly for the unsized composites
CompInputs ==
    {c \in DefinedComps :
        /\ c.is_unsized => c.layout = None
        /\ (c.layout = None /\ ~c.is_opaque) => c.is_unsized}
    \cup {c \in UndefinedComps : c.has_non_type_template_params \/ c.is_forward_declaration}

\* an item pushed onto the result
CItem(kind, name, body) == [kind |-> kind, name |-> name, body |-> body]

\* a field of the record: its name and, for a blob, the layout of the blob
RField(name, blob) == [name |-> name, blob |-> blob]

\* the fields for the vtable and the bases
BaseFieldName(i) == IF i = 1 THEN <<"_base">> ELSE <<"_base_">> \o Decimal(i - 1)

BaseFields(c) ==
    LET idx == SelectSeq([i \in 1..Len(c.bases) |-> i],
                         LAMBDA i : ~c.bases[i].is_virtual)
    IN  (IF c.needs_explicit_vtable THEN <<RField(<<"vtable_">>, None)>> ELSE <<>>)
        \o [k \in 1..Len(idx) |-> RField(BaseFieldName(idx[k]), None)]

\* Field::codegen over self.fields(): the fields and the accessor methods
RECURSIVE MemberFields(_, _, _)
MemberFields(fs, anon, nth) ==
    IF fs = <<>> THEN [fields |-> <<>>, methods |-> <<>>]
    ELSE LET f == Head(fs) IN
         IF f.field = "Bitfields"
         THEN LET rest == MemberFields(Tail(fs), anon, nth + 1) IN
              [fields |-> <<RField(<<"_bitfield_">> \o Decimal(nth), None)>> \o rest.fields,
               methods |-> [k \in 1..Len(f.bitfields) |->
                               [base |-> f.bitfields[k], name |-> <<f.bitfields[k]>>,
                                calls |-> None]]
                           \o <<[base |-> "new_bitfield", name |-> <<"new_bitfield_">> \o Decimal(nth),
                                 calls |-> None]>>
                           \o rest.methods]
         ELSE LET name == IF f.name = None
                          THEN <<"__bindgen_anon_">> \o Decimal(anon + 1) ELSE f.name
                  rest == MemberFields(Tail(fs), IF f.name = None THEN anon + 1 ELSE anon, nth)
              IN  [fields |-> <<RField(name, None)>> \o rest.fields,
                   methods |-> (IF f.accessor
                                THEN <<[base |-> "get", name |-> <<"get_">> \o name, calls |-> None]>>
                                ELSE <<>>) \o rest.methods]

PhantomFields(c) ==
    [i \in 1..Len(c.used_template_params.params) |->
        RField(<<"_phantom_">> \o Decimal(i - 1), None)]

\* the fields of the record and the accessor methods, as the emitter builds them
RecordFields(c) ==
    LET own == IF c.is_opaque THEN [fields |-> <<>>, methods |-> <<>>]
               ELSE MemberFields(c.fields.fields, 0, 1)
        f1 == (IF c.is_opaque THEN <<>> ELSE BaseFields(c)) \o own.fields
        f2 == IF c.kind.is_union /\ ~c.is_opaque
              THEN Append(f1, IF c.kind.can_be_rust_union
                              THEN RField(<<"_bindgen_union_align">>, c.layout)
                              ELSE RField(<<"bindgen_union_field">>, c.layout))
              ELSE f1
        f3 == IF c.is_opaque
              THEN (IF c.layout # None
                    THEN Append(f2, RField(<<"_bindgen_opaque_blob">>, c.layout)) ELSE f2)
              ELSE IF ~c.kind.is_union /\ ~c.is_unsized /\ c.layout # None /\ c.fields.padded
                   THEN f2 \o <<RField(<<"__bindgen_padding_0">>, None),
                                RField(<<"__bindgen_align">>, None)>>
                   ELSE f2
        has_address == IF c.is_opaque THEN c.layout = None
                       ELSE (c.layout = None \/ c.layout.size # 0)
        f4 == IF c.is_unsized /\ has_address
              THEN Append(f3, RField(<<"_address">>, [size |-> 1, align |-> 1]))
              ELSE f3
    IN  [fields |-> f4 \o PhantomFields(c), methods |-> own.methods]

LayoutTestBits(c) ==
    LET named == SelectSeq(c.fields.fields,
                     LAMBDA f : f.field = "DataMember" /\ f.name # None /\ f.offset # None)
    IN  CItem("test", <<"bindgen_test_layout_", CompName>>,
              [size |-> c.layout.size,
               align |-> IF c.layout.align > PointerSize THEN None ELSE <<c.layout.align>>,
               offsets |-> IF c.is_opaque THEN <<>>
                           ELSE [k \in 1..Len(named) |->
                                    [name |-> named[k].name,
                                     offset |-> named[k].offset[1]]]])

\* the layout test: size, align (None when not representable) and offsets
LayoutTest(c) ==
    LET too_many_base_vtables ==
            Cardinality({i \in 1..Len(c.bases) : c.bases[i].has_vtable}) > 1
        named == SelectSeq(c.fields.fields,
                     LAMBDA f : f.field = "DataMember" /\ f.name # None /\ f.offset # None)
    IN  CItem("test", <<"bindgen_test_layout_", CompName>>,
              [size |-> c.layout.size,
               align |-> IF c.layout.align > PointerSize THEN None ELSE <<c.layout.align>>,
               offsets |-> IF c.is_opaque \/ too_many_base_vtables THEN <<>>
                           ELSE [k \in 1..Len(named) |->
                                    [name |-> named[k].name,
                                     offset |-> named[k].offset[1] \div 8]]])

\* the methods, constructors and destructor that the configuration enables
EnabledMethods(c) ==
    (IF c.config.methods THEN c.members.methods ELSE <<>>)
    \o (IF c.config.constructors
        THEN [k \in 1..Len(c.members.constructors) |-> Method("Constructor", c.members.constructors[k], FALSE)]
        ELSE <<>>)
    \o (IF c.config.destructors /\ c.members.destructor # None
        THEN <<Method(IF c.members.destructor[1] THEN "VirtualDestructor" ELSE "Destructor",
                      "d", FALSE)>>
        ELSE <<>>)

WrapperBaseFunctionName(m) == m.name

WrapperBase(m) ==
    CASE m.kind = "Constructor" -> "new"
      [] m.kind = "Destructor" -> "destruct"
      [] OTHER -> m.name

\* Method::codegen_method over ms: the externs pushed and the wrappers
RECURSIVE CodegenMethods(_, _)
CodegenMethods(ms, acc) ==
    IF ms = <<>> THEN acc
    ELSE LET m == Head(ms) IN
         IF m.kind \in {"Virtual", "VirtualDestructor"}
         THEN CodegenMethods(Tail(ms), acc)
         ELSE LET items1 == Append(acc.items, CItem("fn", <<m.name>>, None))
                  base == WrapperBase(m)
                  count == Cardinality({k \in 1..Len(acc.methods) :
                                           acc.methods[k].calls # None
                                           /\ acc.methods[k].base = base})
                  name == IF count # 0 THEN <<base>> \o Decimal(count) ELSE <<base>>
              IN  IF m.is_variadic
                  THEN CodegenMethods(Tail(ms), [acc EXCEPT !.items = items1])
                  ELSE CodegenMethods(Tail(ms),
                           [items |-> items1,
                            methods |-> Append(acc.methods,
                                [base |-> base, name |-> name, calls |-> <<m.name>>])])

NeedsCloneImplAlways(c) == c.derive_copy

\* needs_clone_impl
NeedsCloneImpl(c) == c.derive_copy /\ ~c.used_template_params.is_some

CompIdle ==
    /\ comp = [is_opaque |-> FALSE]
    /\ cpc = "idle"
    /\ derives = <<>>
    /\ needs_clone_impl = FALSE
    /\ fields = <<>>
    /\ methods = <<>>
    /\ citems = <<>>

CompInit ==
    /\ comp \in CompInputs
    /\ cpc = "start"
    /\ derives = <<>>
    /\ needs_clone_impl = FALSE
    /\ fields = <<>>
    /\ methods = <<>>
    /\ citems = <<>>

\* the early returns and the derives
StructHeader ==
    /\ cpc = "start"
    /\ IF comp.has_non_type_template_params
       THEN /\ cpc' = "done"
            /\ UNCHANGED <<derives, needs_clone_impl, citems>>
       ELSE IF comp.is_forward_declaration /\ ~comp.used_template_params.is_some
       THEN /\ cpc' = "done"
            /\ citems' = Append(citems,
                   CItem("struct", CompName,
                         [derives |-> <<"Debug", "Copy", "Clone">>,
                          fields |-> <<RField(<<"_unused">>, None)>>]))
            /\ UNCHANGED <<derives, needs_clone_impl>>
       ELSE /\ cpc' = "fields"
            /\ derives' = IF comp.derive_copy
                          THEN (IF comp.used_template_params.is_some
                                THEN <<"Copy", "Clone">> ELSE <<"Copy">>)
                          ELSE <<>>
            /\ needs_clone_impl' = NeedsCloneImpl(comp)
            /\ UNCHANGED citems
    /\ UNCHANGED <<comp, fields, methods, passVars, enumVars, bfVars, tyVars, unitVars>>

\* the vtable, the fields and the record
StructFields ==
    /\ cpc = "fields"
    /\ IF comp.kind.is_union /\ ~comp.is_opaque /\ comp.layout = None
       THEN /\ cpc' = "panic"
            /\ UNCHANGED <<fields, methods, citems>>
       ELSE LET rf == RecordFields(comp) IN
            /\ cpc' = "tests"
            /\ fields' = rf.fields
            /\ methods' = rf.methods
            /\ citems' =
                 (IF ~comp.is_opaque /\ comp.needs_explicit_vtable
                  THEN Append(citems, CItem("vtable", CompName, None)) ELSE citems)
                 \o <<CItem("struct", CompName, [derives |-> derives, fields |-> rf.fields])>>
    /\ UNCHANGED <<comp, derives, needs_clone_impl, passVars, enumVars, bfVars, tyVars, unitVars>>

\* the layout test
StructLayoutTest ==
    /\ cpc = "tests"
    /\ cpc' = "methods"
    /\ citems' = IF ~comp.used_template_params.is_some /\ comp.config.layout_tests
                    /\ comp.layout # None
                 THEN Append(citems, LayoutTest(comp))
                 ELSE citems
    /\ UNCHANGED <<comp, derives, needs_clone_impl, fields, methods, passVars, enumVars, bfVars, tyVars, unitVars>>

\* the loops over the methods, the constructors and the destructor
StructMethods ==
    /\ cpc = "methods"
    /\ cpc' = "impls"
    /\ IF comp.used_template_params.is_some
       THEN UNCHANGED <<citems, methods>>
       ELSE LET r == CodegenMethods(EnabledMethods(comp),
                                    [items |-> citems, methods |-> methods])
            IN  citems' = r.items /\ methods' = r.methods
    /\ UNCHANGED <<comp, derives, needs_clone_impl, fields, passVars, enumVars, bfVars, tyVars, unitVars>>

\* the Clone impl and the inherent impl block
StructImpls ==
    /\ cpc = "impls"
    /\ cpc' = "done"
    /\ citems' = (IF needs_clone_impl
                  THEN Append(citems, CItem("impl_clone", CompName, <<"*self">>)) ELSE citems)
                 \o (IF methods # <<>> THEN <<CItem("impl", CompName, methods)>> ELSE <<>>)
    /\ UNCHANGED <<comp, derives, needs_clone_impl, fields, methods, passVars, enumVars, bfVars, tyVars, unitVars>>

(***************************************************************************)
(* What the claims about the composite emitter speak about                 *)
(***************************************************************************)
RecordEmitted == cpc = "done" /\ \E k \in 1..Len(citems) : citems[k].kind = "struct"

\* the record that the emitter pushed
Record == (CHOOSE k \in 1..Len(citems) : citems[k].kind = "struct")

ItemsOfKind(kind) == SelectSeq(citems, LAMBDA t : t.kind = kind)

IsPhantom(f) == f.name[1] = "_phantom_"

\* C15: the record of an opaque composite with a known layout has
\* _bindgen_opaque_blob of the layout's blob as its only data field (marker
\* fields for template parameters aside), no vtable is emitted, and there
\* is no inherent impl block, whatever the IR lists and the configuration
\* enables.
OpaqueOnlyBlob ==
    (RecordEmitted /\ comp.is_opaque /\ comp.layout # None) =>
        /\ SelectSeq(citems[Record].body.fields, LAMBDA f : ~IsPhantom(f))
              = <<RField(<<"_bindgen_opaque_blob">>, comp.layout)>>
        /\ ItemsOfKind("vtable") = <<>>
        /\ ItemsOfKind("impl") = <<>>

NamedWithOffset(c) ==
    {i \in 1..Len(c.fields.fields) :
        /\ c.fields.fields[i].field = "DataMember"
        /\ c.fields.fields[i].name # None
        /\ c.fields.fields[i].offset # None}

\* C16: with layout_tests on, an emitted composite with a known layout and
\* no template parameters has exactly one layout test; the test asserts the
\* size of the layout, asserts the align of the layout exactly when it is
\* not larger than the pointer size, and holds one offset assertion, of
\* offset_bits / 8, for exactly each named data member with a known
\* offset, and none when the composite is opaque or more than one base has
\* a vtable.
OneLayoutTest ==
    (RecordEmitted /\ comp.config.layout_tests /\ comp.layout # None
       /\ ~comp.used_template_params.is_some) =>
        LET tests == ItemsOfKind("test")
            t == tests[1].body
            many == \E i, j \in 1..Len(comp.bases) :
                        i # j /\ comp.bases[i].has_vtable /\ comp.bases[j].has_vtable
        IN  /\ Len(tests) = 1
            /\ t.size = comp.layout.size
            /\ IF comp.layout.align <= PointerSize
               THEN t.align = <<comp.layout.align>> ELSE t.align = None
            /\ IF comp.is_opaque \/ many
               THEN t.offsets = <<>>
               ELSE /\ Len(t.offsets) = Cardinality(NamedWithOffset(comp))
                    /\ \A i \in NamedWithOffset(comp) :
                          \E k \in 1..Len(t.offsets) :
                              /\ t.offsets[k].name = comp.fields.fields[i].name
                              /\ 8 * t.offsets[k].offset <= comp.fields.fields[i].offset[1]
                              /\ comp.fields.fields[i].offset[1] < 8 * t.offsets[k].offset + 8

\* a layout test with the offsets 0 and 4 of two named members and an
\* align assertion
TestWithOffsets ==
    /\ RecordEmitted
    /\ Len(ItemsOfKind("test")) = 1
    /\ LET t == ItemsOfKind("test")[1].body IN
          /\ Len(t.offsets) = 2
          /\ t.offsets[2].offset = 4
          /\ t.align # None

\* the wrapper methods among the methods of the impl block
Wrappers == SelectSeq(methods, LAMBDA w : w.calls # None)

\* the members that generate a wrapper, in the order methods, constructors,
\* destructor, each with its base name and the function it wraps: virtual
\* and variadic ones generate none
Generating ==
    (IF comp.config.methods
     THEN LET ms == SelectSeq(comp.members.methods,
                        LAMBDA m : m.kind # "Virtual" /\ ~m.is_variadic)
          IN  [k \in 1..Len(ms) |-> [base |-> ms[k].name, wraps |-> ms[k].name]]
     ELSE <<>>)
    \o (IF comp.config.constructors
        THEN [k \in 1..Len(comp.members.constructors) |->
                 [base |-> "new", wraps |-> comp.members.constructors[k]]]
        ELSE <<>>)
    \o (IF comp.config.destructors /\ comp.members.destructor = <<FALSE>>
        THEN <<[base |-> "destruct", wraps |-> "d"]>>
        ELSE <<>>)

\* C25: the i-th wrapper (i from 0, in the order methods, constructors,
\* destructor) with a given base name, which is new for a constructor,
\* destruct for a destructor and the function name otherwise, is named
\* base when i = 0 and base followed by i otherwise; virtual and variadic
\* methods generate no wrapper and consume no count.
WrapperNamesCounted ==
    (cpc \in {"impls", "done"} /\ ~comp.used_template_params.is_some) =>
        /\ Len(Wrappers) = Len(Generating)
        /\ \A k \in 1..Len(Wrappers) :
              LET i == Cardinality({j \in 1..(k - 1) :
                                       Generating[j].base = Generating[k].base})
              IN  /\ Wrappers[k].calls = <<Generating[k].wraps>>
                  /\ Wrappers[k].name =
                        <<Generating[k].base>> \o (IF i = 0 THEN <<>> ELSE Decimal(i))

\* a variadic method, a method named new and a constructor: the method came
\* out as new, the constructor as new1, and the variadic method has no
\* wrapper
MethodNewAndConstructor ==
    /\ cpc = "done"
    /\ \E k \in 1..Len(comp.members.methods) : comp.members.methods[k].is_variadic
    /\ Len(Wrappers) >= 2
    /\ Wrappers[1].name = <<"new">> /\ Wrappers[1].calls = <<"new">>
    /\ Wrappers[2].name = <<"new", "1">> /\ Wrappers[2].calls = <<"c1">>
    /\ \E k \in 1..Len(citems) : citems[k].kind = "impl" /\ citems[k].body = methods

DerivesOfRecord == {citems[Record].body.derives[k] : k \in 1..Len(citems[Record].body.derives)}

\* C19 as stated: an emitted composite that derives Copy has a derived
\* Clone when it has template parameters and a manual Clone impl with the
\* body *self otherwise, and never both; one that does not derive Copy has
\* no manual Clone impl.
CloneDerivedIffTemplated ==
    RecordEmitted =>
        LET derived == "Clone" \in DerivesOfRecord
            manual == ItemsOfKind("impl_clone") # <<>>
        IN  /\ "Copy" \in DerivesOfRecord =>
                  /\ derived <=> comp.used_template_params.is_some
                  /\ manual <=> ~comp.used_template_params.is_some
            /\ "Copy" \notin DerivesOfRecord => ~manual
            /\ ~(derived /\ manual)
            /\ Len(ItemsOfKind("impl_clone")) <= 1
            /\ \A k \in 1..Len(ItemsOfKind("impl_clone")) :
                  ItemsOfKind("impl_clone")[k].body = <<"*self">>

\* the composite is emitted as the tuple struct of a forward declaration
IsForwardRecord ==
    comp.is_forward_declaration /\ ~comp.used_template_params.is_some

\* C19 amended: an emitted composite that derives Copy has exactly one
\* Clone implementation: a derived Clone when it has template parameters
\* or is emitted as a forward declaration (which always derives Copy and
\* Clone), and one manual Clone impl with the body *self otherwise; one
\* that does not derive Copy has no manual Clone impl; none has both.
CloneDerivedIffTemplatedOrForward ==
    RecordEmitted =>
        LET derived == "Clone" \in DerivesOfRecord
            manual == ItemsOfKind("impl_clone") # <<>>
        IN  /\ IsForwardRecord => "Copy" \in DerivesOfRecord
            /\ "Copy" \in DerivesOfRecord =>
                  /\ derived <=> (comp.used_template_params.is_some \/ IsForwardRecord)
                  /\ manual <=> ~(comp.used_template_params.is_some \/ IsForwardRecord)
            /\ "Copy" \notin DerivesOfRecord => ~manual
            /\ ~(derived /\ manual)
            /\ Len(ItemsOfKind("impl_clone")) <= 1
            /\ \A k \in 1..Len(ItemsOfKind("impl_clone")) :
                  ItemsOfKind("impl_clone")[k].body = <<"*self">>

\* a composite without template parameters that derives Copy came out with
\* a manual Clone impl and an inherent impl block
ManualCloneEmitted ==
    /\ RecordEmitted
    /\ ~comp.used_template_params.is_some
    /\ "Copy" \in DerivesOfRecord
    /\ "Clone" \notin DerivesOfRecord
    /\ Len(ItemsOfKind("impl_clone")) = 1
    /\ ItemsOfKind("impl") # <<>>


(***************************************************************************)
(* The type renderer's fallback to the opaque blob: TryToOpaque, ToOpaque, *)
(* TryToRustTyOrOpaque and ToRustTyOrOpaque.  An item is what its          *)
(* try_to_rust_ty and its try_get_layout return.                           *)
(***************************************************************************)
Ok(v) == [ok |-> TRUE, val |-> v]

Err(e) == [ok |-> FALSE, err |-> e]

\* the structural renderings of the items that can be rendered
Renderings == { [kind |-> "path", size |-> None, align |-> None],
                [kind |-> "ptr", size |-> None, align |-> None] }

LayoutSizes == {0, 1, 2, 4, 8, 16, 32}

LayoutAligns == {1, 2, 4, 8, 16}

\* the layouts the IR reports: the size is a multiple of the alignment
TyLayouts ==
    {l \in [size : LayoutSizes, align : LayoutAligns] : l.size % l.align = 0}

TyItems ==
    [try_to_rust_ty : {Ok(t) : t \in Renderings}
                      \cup {Err("InstantiationOfOpaqueType"), Err("NoLayoutForOpaqueBlob")},
     try_get_layout : {Ok(l) : l \in TyLayouts} \cup {Err("NoLayoutForOpaqueBlob")}]

\* helpers::blob: the byte array of the size and the alignment of the layout
blob(layout) == [kind |-> "blob", size |-> <<layout.size>>, align |-> <<layout.align>>]

RECURSIVE next_align(_, _)
next_align(size, a) ==
    IF size % a = 0 /\ a <= PointerSize THEN next_align(size, 2 * a) ELSE a

\* Layout::for_size
for_size(size) == [size |-> size, align |-> next_align(size, 2) \div 2]

try_to_opaque(item) ==
    IF item.try_get_layout.ok THEN Ok(blob(item.try_get_layout.val))
    ELSE item.try_get_layout

get_layout_pointer(item) ==
    IF item.try_get_layout.ok THEN item.try_get_layout.val ELSE for_size(PointerSize)

get_layout(item) ==
    IF item.try_get_layout.ok THEN item.try_get_layout.val ELSE for_size(1)

to_opaque(item) == blob(get_layout(item))

try_to_rust_ty_or_opaque(item) ==
    IF item.try_to_rust_ty.ok THEN item.try_to_rust_ty
    ELSE IF item.try_get_layout.ok THEN Ok(blob(item.try_get_layout.val))
         ELSE Err("NoLayoutForOpaqueBlob")

to_rust_ty_or_opaque(item) ==
    IF item.try_to_rust_ty.ok THEN item.try_to_rust_ty.val ELSE to_opaque(item)

TyIdle ==
    /\ titem = None
    /\ tpc = "idle"
    /\ rendered = None

TyInit ==
    /\ titem \in TyItems
    /\ tpc = "call"
    /\ rendered = None

TryToOpaque ==
    /\ tpc = "call"
    /\ tpc' = "try_to_opaque"
    /\ rendered' = try_to_opaque(titem)
    /\ UNCHANGED <<titem, passVars, enumVars, bfVars, compVars, unitVars>>

ToOpaque ==
    /\ tpc = "call"
    /\ tpc' = "to_opaque"
    /\ rendered' = to_opaque(titem)
    /\ UNCHANGED <<titem, passVars, enumVars, bfVars, compVars, unitVars>>

TryToRustTyOrOpaque ==
    /\ tpc = "call"
    /\ tpc' = "try_to_rust_ty_or_opaque"
    /\ rendered' = try_to_rust_ty_or_opaque(titem)
    /\ UNCHANGED <<titem, passVars, enumVars, bfVars, compVars, unitVars>>

ToRustTyOrOpaque ==
    /\ tpc = "call"
    /\ tpc' = "to_rust_ty_or_opaque"
    /\ rendered' = to_rust_ty_or_opaque(titem)
    /\ UNCHANGED <<titem, passVars, enumVars, bfVars, compVars, unitVars>>

\* the rendering is the blob of a layout of one byte
OneByteBlob(t) == t.kind = "blob" /\ t.size = <<1>>

Tokens == Renderings \cup {blob(l) : l \in TyLayouts \cup {[size |-> 1, align |-> 1]}}

UnitLayoutSizes == 1..16

\* the layouts of bitfield units
UnitLayouts ==
    {l \in [size : UnitLayoutSizes, align : {1, 2, 4, 8}] : l.align <= l.size}

is_power_of_two(n) == n \in {1, 2, 4, 8, 16}

RECURSIVE next_power_of_two_from(_, _)
next_power_of_two_from(n, p) == IF p >= n THEN p ELSE next_power_of_two_from(n, 2 * p)

\* field_int_size: the size of the layout, rounded up to a power of two
field_int_size(size) ==
    IF ~is_power_of_two(size) THEN next_power_of_two_from(size, 1) ELSE size

\* unit_field_int_ty: the size in bytes of u8, u16, u32 or u64, or None
\* when the unit is larger than 64 bits and gets no accessors
unit_field_int_ty(l) ==
    IF field_int_size(l.size) \in {1, 2, 4, 8} THEN <<field_int_size(l.size)>> ELSE None

UnitIdle ==
    /\ bunit = None
    /\ upc = "idle"
    /\ accessors = None
    /\ copied = {}

UnitInit ==
    /\ bunit \in UnitLayouts
    /\ upc = "codegen"
    /\ accessors = None
    /\ copied = {}

\* BitfieldUnit::codegen: the field of the blob of the layout, and the
\* accessors over unit_field_int_ty
BitfieldUnitCodegen ==
    /\ upc = "codegen"
    /\ accessors' = [field_size |-> bunit.size, int_ty |-> unit_field_int_ty(bunit)]
    /\ upc' = IF unit_field_int_ty(bunit) = None THEN "none" ELSE "generated"
    /\ UNCHANGED <<bunit, copied, passVars, enumVars, bfVars, compVars, tyVars>>

\* a call of a generated getter: copy_nonoverlapping of
\* size_of::<unit_field_int_ty>() bytes from the storage field
CallGetter ==
    /\ upc \in {"generated", "got", "set"}
    /\ copied' = 0..(accessors.int_ty[1] - 1)
    /\ upc' = "got"
    /\ UNCHANGED <<bunit, accessors, passVars, enumVars, bfVars, compVars, tyVars>>

\* a call of a generated setter: the same copy from the storage field, and
\* one of the same length back to it
CallSetter ==
    /\ upc \in {"generated", "got", "set"}
    /\ copied' = 0..(accessors.int_ty[1] - 1)
    /\ upc' = "set"
    /\ UNCHANGED <<bunit, accessors, passVars, enumVars, bfVars, compVars, tyVars>>

\* C27: for every bitfield unit that gets accessors, the bytes that the
\* getter and the setter copy from and to the storage field _bitfield_N,
\* as many as the unit integer type has, lie within the storage field,
\* whose size is the size of the layout of the unit.
AccessorsStayInStorage ==
    upc \in {"got", "set"} =>
        /\ Cardinality(copied) <= bunit.size
        /\ copied \subseteq 0..(bunit.size - 1)

SpecTyInit == TyInit /\ PassIdle /\ EnumIdle /\ BitfieldIdle /\ CompIdle /\ UnitIdle

SpecTyNext ==
    \/ TryToOpaque
    \/ ToOpaque
    \/ TryToRustTyOrOpaque
    \/ ToRustTyOrOpaque

SpecTy == SpecTyInit /\ [][SpecTyNext]_vars

SpecUnitInit == UnitInit /\ PassIdle /\ EnumIdle /\ BitfieldIdle /\ CompIdle /\ TyIdle

SpecUnitNext == BitfieldUnitCodegen \/ CallGetter \/ CallSetter

SpecUnit == SpecUnitInit /\ [][SpecUnitNext]_vars

SpecCompInit == CompInit /\ PassIdle /\ EnumIdle /\ BitfieldIdle /\ TyIdle /\ UnitIdle

SpecCompNext ==
    StructHeader \/ StructFields \/ StructLayoutTest \/ StructMethods \/ StructImpls

SpecComp == SpecCompInit /\ [][SpecCompNext]_vars


SpecBitfieldInit == BitfieldInit /\ PassIdle /\ EnumIdle /\ CompIdle /\ TyIdle /\ UnitIdle

SpecBitfieldNext == SetBitfield \/ NewBitfield \/ GetBitfield

SpecBitfield == SpecBitfieldInit /\ [][SpecBitfieldNext]_vars


SpecEnumInit == EnumInit /\ PassIdle /\ BitfieldIdle /\ CompIdle /\ TyIdle /\ UnitIdle

SpecEnumNext == EnumVariant \/ EnumBuild

SpecEnum == SpecEnumInit /\ [][SpecEnumNext]_vars

\* the loop is sequential code: while an iteration or the final build is
\* possible, it is executed
SpecEnumFair == SpecEnum /\ WF_vars(SpecEnumNext)


Init == PassInit /\ EnumIdle /\ BitfieldIdle /\ CompIdle /\ TyIdle /\ UnitIdle

Next ==
    \/ Codegen
    \/ ModuleChild
    \/ ModuleFinish
    \/ CompInnerType
    \/ CompMethod
    \/ CompFinish

Spec == Init /\ [][Next]_vars

\* the IRs of the pass without template instantiations and variables, in
\* which only F1 and F2 may be children of a module
SpecFairInit ==
    /\ Init
    /\ ir.inst = NoInstantiations
    /\ ir.var = NoVars
    /\ \A f \in {"F3", "F4", "F5"} : ir.place[f] = "none"

\* the pass is one sequential call: while a step of it is possible, it is
\* executed
SpecFair == SpecFairInit /\ [][Next]_vars /\ WF_vars(Next)

====
